---------------------------- MODULE Spec2Model ----------------------------
(***************************************************************************)
(* Attendance punch state machine of the AWS-Attendance-Portal.            *)
(*                                                                         *)
(* The repository holds five versions of the /api/submit-attendance        *)
(* handler.  Exactly one of them is deployed; `variant` says which:        *)
(*   "upsert"  src/pages/api/submit-attendance.js 258-406 (atomic upsert)  *)
(*   "dayjs"   src/pages/api/submit-attendance.js 133-242 (cooldown)       *)
(*   "ist"     src/pages/api/submit-attendance.js  15-109 (read then save) *)
(*   "p4"      src/unnamed/part_004 (moment, punchInAt/punchOutAt)         *)
(*   "p5"      src/unnamed/part_005 (read then save, server time zone)     *)
(*                                                                         *)
(* A request is a sequence of atomic steps.  Every store call (findOne,    *)
(* findOneAndUpdate, save, findById) is one step; the synchronous code     *)
(* that follows an await is a step of its own whenever it reads the clock, *)
(* and is folded into the store step when it touches only the request's    *)
(* locals.  Steps of different requests interleave arbitrarily, and the    *)
(* clock may advance between any two steps.                                *)
(*                                                                         *)
(* Instants are milliseconds since 00:00:00.000 of day 0 in the            *)
(* application time zone (Asia/Kolkata has no daylight saving, so a local  *)
(* day is always 86400 s).  A "YYYY-MM-DD" date is modelled by its day     *)
(* number, an "HH:mm:ss" string by its whole second of the day.            *)
(***************************************************************************)
EXTENDS Integers, Sequences, FiniteSets, TLC

VARIABLES
    variant,      \* which handler version is deployed
    cooldown,     \* MIN_INTERVAL / MIN_REPEAT_SECONDS read from the environment
    strictSchema, \* TRUE: the Attendance schema does not declare punchInAt/punchOutAt
    clock,        \* the server clock (ms)
    attendance,   \* the Attendance collection: a sequence of documents, _id = index
    req,          \* per request: position and locals
    resp,         \* per request: the response sent, <<>> while none
    wrote,        \* per request: the state-changing store writes it performed
    users,        \* the User collection: a sequence of documents, _id = index
    rekognition,  \* the Rekognition service: the collection ids that exist
    kiosk         \* the browser: the page shown and the state of its component

vars == <<variant, cooldown, strictSchema, clock, attendance, req, resp, wrote,
          users, rekognition, kiosk>>

\* What the submit-attendance handlers never touch
Elsewhere == <<users, rekognition, kiosk>>

---------------------------------------------------------------------------
(* Bounds *)

MaxReq == 3

Reqs == 1..MaxReq

---------------------------------------------------------------------------
(* Time *)

MsPerSec == 1000

SecPerDay == 86400

MsPerDay == SecPerDay * MsPerSec

Hms(h, m, s) == ((h * 60 + m) * 60 + s) * MsPerSec

\* The instants at which the clock is observed.  Day 0 stands for 2025-01-10.
Instants ==
    { Hms(9, 0, 0),          \* 09:00:00.000
      Hms(9, 0, 0) + 900,    \* 09:00:00.900
      Hms(9, 0, 1),          \* 09:00:01.000
      Hms(9, 1, 0) + 100,    \* 09:01:00.100
      MsPerDay + 200 }       \* next day 00:00:00.200

FirstInstant == CHOOSE t \in Instants : \A s \in Instants : t <= s

\* format('YYYY-MM-DD') in the application time zone
FormatDate(t) == t \div MsPerDay

\* format('HH:mm:ss'): the whole second of the day, the milliseconds are dropped
FormatTime(t) == (t % MsPerDay) \div MsPerSec

\* dayjs.tz(`${date} ${punchIn}`, 'YYYY-MM-DD HH:mm:ss', APP_TZ)
ParseDateTime(date, hms) == date * MsPerDay + hms * MsPerSec

\* Mutant: the difference rounded to the nearest second (Math.round)
DiffSeconds_Rounded(a, b) ==
    IF a >= b THEN (a - b + 500) \div MsPerSec
    ELSE 0 - ((b - a + 500) \div MsPerSec)

\* a.diff(b, 'second'): the difference in seconds, truncated toward zero
DiffSeconds(a, b) ==
    IF a >= b THEN (a - b) \div MsPerSec ELSE 0 - ((b - a) \div MsPerSec)

---------------------------------------------------------------------------
(* Optional values: <<>> is absent (undefined / null), <<v>> is v. *)

None == <<>>

Some(v) == <<v>>

Val(o) == o[1]

\* Mutant: a field counts as set whether it is or not
Truthy_Always(o) == TRUE

Truthy(o) == o # None

---------------------------------------------------------------------------
(* The User collection (src/unnamed/part_000).  It is not written by any   *)
(* submit-attendance handler.                                              *)

RegisteredUsers == {"U1", "U2"}

UserDoc(u) ==
    IF u = "U1" THEN [userId |-> "U1", name |-> "Asha", role |-> "student"]
    ELSE [userId |-> "U2", name |-> "Ravi", role |-> "faculty"]

\* Mutant: the lookup returns a user whatever the userId
UserFindOne_Any(u) == Some(UserDoc(u))

\* User.findOne({ userId }).lean()
UserFindOne(u) == IF u \in RegisteredUsers THEN Some(UserDoc(u)) ELSE None

\* Request inputs
Methods == {"POST", "GET"}

\* userId of the request body: a registered user, an unknown one, or none.
\* Two registered users are exercised against the atomic-upsert handler.
BodyUserIds ==
    IF variant = "upsert" THEN {"U1", "U2", "U404", ""} ELSE {"U1", "U404", ""}

\* <<name, role>> of the request body, read by src/unnamed/part_004 only
Bodies == {<<"", "">>, <<"Zed", "guest">>}

\* A `date` field of the request body: absent, or the day after the first
BodyDates == {None, Some(FormatDate(FirstInstant) + 1)}

\* Mutant: a date in the request body selects the day
Today_FromBody(bd) == IF bd = None THEN FormatDate(clock) ELSE Val(bd)

\* today = dayjs()[.tz(APP_TZ)].format("YYYY-MM-DD"): no handler reads a date
\* from the body
Today(bd) == FormatDate(clock)

Cooldowns == {1, 60}

---------------------------------------------------------------------------
(* Attendance documents and responses *)

Document(u, n, ro, d, pin, pout, rat, pinAt, poutAt) ==
    [userId |-> u, name |-> n, role |-> ro, date |-> d,
     punchIn |-> pin, punchOut |-> pout, recordedAt |-> rat,
     punchInAt |-> pinAt, punchOutAt |-> poutAt]

Ids == DOMAIN attendance

Min(S) == CHOOSE i \in S : \A j \in S : i <= j

Response(code, status, message, pin, pout, secs, rat) ==
    [code |-> code, status |-> status, message |-> message,
     punchIn |-> pin, punchOut |-> pout, secondsSincePunchIn |-> secs,
     recordedAt |-> rat]

ErrorResponse(code, message) ==
    Response(code, "", message, None, None, None, None)

IdleReq ==
    [pc |-> "idle", userId |-> "", name |-> "", role |-> "",
     today |-> 0, now |-> 0, rec |-> None, id |-> 0, diffSec |-> None,
     alone |-> TRUE]

\* No other request is between its first step and its response.
NoneInFlight(r) == \A q \in Reqs \ {r} : req[q].pc \in {"idle", "done"}

\* Requests are numbered in the order in which they arrive.
Arrives(r) ==
    /\ req[r].pc = "idle"
    /\ IF r = 1 THEN TRUE ELSE req[r - 1].pc # "idle"

Finish(r, locals, response) ==
    /\ req' = [req EXCEPT ![r] = [locals EXCEPT !.pc = "done"]]
    /\ resp' = [resp EXCEPT ![r] = Some(response)]

Goto(r, locals, label) ==
    /\ req' = [req EXCEPT ![r] = [locals EXCEPT !.pc = label]]
    /\ resp' = resp

Config == <<variant, cooldown, strictSchema>>

---------------------------------------------------------------------------
(* The clock *)

Tick == /\ \E t \in Instants : t > clock /\ clock' = t
        /\ UNCHANGED <<Config, Elsewhere, attendance, req, resp, wrote>>

---------------------------------------------------------------------------
(* Atomic-upsert handler: src/pages/api/submit-attendance.js 258-406 *)

MIN_INTERVAL == cooldown

\* Mutant: the upsert filter also asks for a record that is still open
UpsertFilter_OpenOnly(doc, u, d) ==
    doc.userId = u /\ doc.date = d /\ doc.punchOut = None

\* Mutant: the upsert filter forgets the date
UpsertFilter_UserOnly(doc, u, d) == doc.userId = u

\* Mutant: the upsert filter forgets the userId
UpsertFilter_DateOnly(doc, u, d) == doc.date = d

\* filter = { userId, date: today } of the upsert
UpsertFilter(doc, u, d) == doc.userId = u /\ doc.date = d

\* Mutant: the clock is read again when a timestamp is written
NowIst_Fresh(l) == clock

\* nowIst: the one clock reading of the request, reused for every timestamp
NowIst(l) == l.now

\* Mutant: the upsert writes its fields with $set instead of $setOnInsert
SetOnInsert_Set(existing, fields) ==
    [existing EXCEPT !.name = fields.name, !.role = fields.role,
                     !.punchIn = fields.punchIn,
                     !.recordedAt = fields.recordedAt]

\* A replacement document instead of $setOnInsert: the matched record becomes
\* the update's fields.
SetOnInsert_Replace(existing, fields) == fields

\* { $setOnInsert: {...} } applied to a document the filter matched: no change
SetOnInsert(existing, fields) == existing

\* Mutant: the boundary is exclusive
TooSoon_Inclusive(diffSec) == diffSec <= MIN_INTERVAL

\* diffSec < MIN_INTERVAL
TooSoon(diffSec) == diffSec < MIN_INTERVAL

\* Mutant: the punch-out update is not conditioned on punchOut being absent
PunchOutFilter_Unconditional(doc, i, id) == i = id

\* { _id: record._id, $or: [{ punchOut: { $exists: false } }, { punchOut: null }] }
PunchOutFilter(doc, i, id) == i = id /\ doc.punchOut = None

\* Method and body checks, User.findOne, then the single clock read.
UpBegin(r) ==
    /\ variant = "upsert"
    /\ Arrives(r)
    /\ \E m \in Methods, u \in BodyUserIds, bd \in BodyDates :
          LET l0 == [IdleReq EXCEPT !.userId = u, !.alone = NoneInFlight(r)]
              user == UserFindOne(u)
          IN  IF m # "POST"
              THEN Finish(r, IdleReq, ErrorResponse(405, "Method Not Allowed"))
              ELSE IF u = ""
              THEN Finish(r, l0, ErrorResponse(400, "Missing or invalid userId"))
              ELSE IF user = None
              THEN Finish(r, l0, ErrorResponse(404, "User not found"))
              ELSE Goto(r, [l0 EXCEPT !.name = Val(user).name,
                                      !.role = Val(user).role,
                                      !.now = clock,
                                      !.today = Today(bd)], "upsert")
    /\ UNCHANGED <<Config, Elsewhere, clock, attendance, wrote>>

\* Mutant: after its insert the request goes on to the punch-out update
UpUpsert_FallThrough(r) ==
    /\ variant = "upsert"
    /\ req[r].pc = "upsert"
    /\ LET l == req[r]
           m == {i \in Ids : UpsertFilter(attendance[i], l.userId, l.today)}
           newDoc == Document(l.userId, l.name, l.role, l.today,
                              Some(FormatTime(l.now)), None, Some(l.now),
                              None, None)
       IN  IF m = {}
           THEN /\ attendance' = Append(attendance, newDoc)
                /\ wrote' = [wrote EXCEPT ![r] =
                       Append(@, [kind |-> "insert", id |-> Len(attendance) + 1])]
                /\ Goto(r, [l EXCEPT !.id = Len(attendance) + 1,
                                     !.rec = Some(newDoc)], "update")
           ELSE /\ UNCHANGED <<attendance, wrote>>
                /\ Goto(r, [l EXCEPT !.id = Min(m),
                                     !.rec = Some(attendance[Min(m)])], "update")
    /\ UNCHANGED <<Config, Elsewhere, clock>>

\* Attendance.collection.findOneAndUpdate(filter, { $setOnInsert }, { upsert })
\* and the branch on its result.
UpUpsert(r) ==
    /\ variant = "upsert"
    /\ req[r].pc = "upsert"
    /\ LET l == req[r]
           m == {i \in Ids : UpsertFilter(attendance[i], l.userId, l.today)}
           nowTime == FormatTime(NowIst(l))
           newDoc == Document(l.userId, l.name, l.role, l.today,
                              Some(nowTime), None, Some(NowIst(l)), None, None)
       IN  IF m = {}
           THEN /\ attendance' = Append(attendance, newDoc)
                /\ wrote' = [wrote EXCEPT ![r] =
                       Append(@, [kind |-> "insert", id |-> Len(attendance) + 1])]
                /\ Finish(r, [l EXCEPT !.id = Len(attendance) + 1,
                                       !.rec = Some(newDoc)],
                          Response(200, "Punched In", "Punched In Successfully",
                                   newDoc.punchIn, None, None, newDoc.recordedAt))
           ELSE LET id == Min(m)
                    record == SetOnInsert(attendance[id], newDoc)
                    diffSec == DiffSeconds(l.now,
                                 ParseDateTime(record.date, Val(record.punchIn)))
                    l1 == [l EXCEPT !.id = id, !.rec = Some(record)]
                IN  /\ attendance' = [attendance EXCEPT ![id] = record]
                    /\ wrote' = wrote
                    /\ IF Truthy(record.punchIn) /\ Truthy(record.punchOut)
                       THEN Finish(r, l1,
                              Response(200, "Punched Out", "Already Punched Out",
                                       record.punchIn, record.punchOut, None,
                                       record.recordedAt))
                       ELSE IF Truthy(record.punchIn)
                       THEN IF TooSoon(diffSec)
                            THEN Finish(r, [l1 EXCEPT !.diffSec = Some(diffSec)],
                                   Response(200, "Already Punched In (recent)",
                                            "Duplicate/too-fast",
                                            record.punchIn, None, Some(diffSec),
                                            None))
                            ELSE Goto(r, [l1 EXCEPT !.diffSec = Some(diffSec)],
                                      "update")
                       ELSE Finish(r, l1,
                              ErrorResponse(400, "Invalid attendance state"))
    /\ UNCHANGED <<Config, Elsewhere, clock>>

\* The conditional punch-out update and its result.
UpUpdate(r) ==
    /\ variant = "upsert"
    /\ req[r].pc = "update"
    /\ LET l == req[r]
           m == {i \in Ids : PunchOutFilter(attendance[i], i, l.id)}
       IN  IF m # {}
           THEN LET updatedDoc == [attendance[l.id] EXCEPT
                                     !.punchOut = Some(FormatTime(NowIst(l))),
                                     !.recordedAt = Some(NowIst(l))]
                IN  /\ attendance' = [attendance EXCEPT ![l.id] = updatedDoc]
                    /\ wrote' = [wrote EXCEPT ![r] =
                           Append(@, [kind |-> "update", id |-> l.id])]
                    /\ Finish(r, l,
                          Response(200, "Punched Out", "Punched Out Successfully",
                                   updatedDoc.punchIn, updatedDoc.punchOut, None,
                                   updatedDoc.recordedAt))
           ELSE /\ UNCHANGED <<attendance, wrote>>
                /\ Goto(r, l, "refetch")
    /\ UNCHANGED <<Config, Elsewhere, clock>>

\* Mutant: after a lost update the request reports the record it read earlier
UpRefetch_Stale(r) ==
    /\ variant = "upsert"
    /\ req[r].pc = "refetch"
    /\ LET l == req[r]
           latest == l.rec
       IN  IF latest # None /\ Truthy(Val(latest).punchOut)
           THEN Finish(r, l,
                  Response(200, "Punched Out", "Punched Out (by another request)",
                           Val(latest).punchIn, Val(latest).punchOut, None,
                           Val(latest).recordedAt))
           ELSE Finish(r, l,
                  ErrorResponse(500, "Could not set punchOut - try again"))
    /\ UNCHANGED <<Config, Elsewhere, clock, attendance, wrote>>

\* Attendance.findById(record._id) after an update that did not apply.
UpRefetch(r) ==
    /\ variant = "upsert"
    /\ req[r].pc = "refetch"
    /\ LET l == req[r]
           latest == IF l.id \in Ids THEN Some(attendance[l.id]) ELSE None
       IN  IF latest # None /\ Truthy(Val(latest).punchOut)
           THEN Finish(r, l,
                  Response(200, "Punched Out", "Punched Out (by another request)",
                           Val(latest).punchIn, Val(latest).punchOut, None,
                           Val(latest).recordedAt))
           ELSE Finish(r, l,
                  ErrorResponse(500, "Could not set punchOut - try again"))
    /\ UNCHANGED <<Config, Elsewhere, clock, attendance, wrote>>

\* A call before any Attendance call (connectDB, User.findOne) or an Attendance
\* call throws before the store did anything; the catch block answers 500.
UpFailBefore(r) ==
    /\ variant = "upsert"
    /\ \/ /\ Arrives(r)
          /\ \E u \in RegisteredUsers :
                Finish(r, [IdleReq EXCEPT !.userId = u,
                                          !.alone = NoneInFlight(r)],
                       ErrorResponse(500, "Internal Server Error"))
       \/ /\ req[r].pc \in {"upsert", "update", "refetch"}
          /\ Finish(r, req[r], ErrorResponse(500, "Internal Server Error"))
    /\ UNCHANGED <<Config, Elsewhere, clock, attendance, wrote>>

\* An Attendance write throws after the store applied it (the reply is lost);
\* the catch block answers 500.
UpFailAfter(r) ==
    /\ variant = "upsert"
    /\ LET l == req[r]
           newDoc == Document(l.userId, l.name, l.role, l.today,
                              Some(FormatTime(NowIst(l))), None,
                              Some(NowIst(l)), None, None)
       IN  \/ /\ l.pc = "upsert"
              /\ \A i \in Ids : ~UpsertFilter(attendance[i], l.userId, l.today)
              /\ attendance' = Append(attendance, newDoc)
              /\ wrote' = [wrote EXCEPT ![r] =
                     Append(@, [kind |-> "insert", id |-> Len(attendance) + 1])]
              /\ Finish(r, [l EXCEPT !.id = Len(attendance) + 1,
                                     !.rec = Some(newDoc)],
                        ErrorResponse(500, "Internal Server Error"))
           \/ /\ l.pc = "update"
              /\ \E i \in Ids : PunchOutFilter(attendance[i], i, l.id)
              /\ attendance' = [attendance EXCEPT
                                  ![l.id].punchOut = Some(FormatTime(NowIst(l))),
                                  ![l.id].recordedAt = Some(NowIst(l))]
              /\ wrote' = [wrote EXCEPT ![r] =
                     Append(@, [kind |-> "update", id |-> l.id])]
              /\ Finish(r, l, ErrorResponse(500, "Internal Server Error"))
    /\ UNCHANGED <<Config, Elsewhere, clock>>

---------------------------------------------------------------------------
(* Store operations shared by the handlers that read, then write.          *)

\* Attendance.findOne({ userId, date }): the first matching document
FindOne(u, d) ==
    LET m == {i \in Ids : attendance[i].userId = u /\ attendance[i].date = d}
    IN  IF m = {} THEN 0 ELSE Min(m)

DocAt(id) == IF id \in Ids THEN Some(attendance[id]) ELSE None

\* The schema's validation on save(): name and role are required strings.
Valid(doc) == doc.name # "" /\ doc.role # ""

---------------------------------------------------------------------------
(* Read-then-save handlers without cooldown:                               *)
(*   "ist"  src/pages/api/submit-attendance.js 15-109                      *)
(*   "p5"   src/unnamed/part_005                                           *)
(* The two differ in the time zone of the clock only.                      *)

\* Method and body checks, User.findOne, then today's date.
SaveBegin(v, r) ==
    /\ variant = v
    /\ Arrives(r)
    /\ \E m \in Methods, u \in BodyUserIds, bd \in BodyDates :
          LET l0 == [IdleReq EXCEPT !.userId = u, !.alone = NoneInFlight(r)]
              user == UserFindOne(u)
          IN  IF m # "POST"
              THEN Finish(r, IdleReq, ErrorResponse(405, "Method Not Allowed"))
              ELSE IF u = ""
              THEN Finish(r, l0, ErrorResponse(400, "Missing userId"))
              ELSE IF user = None
              THEN Finish(r, l0, ErrorResponse(404, "User not found"))
              ELSE Goto(r, [l0 EXCEPT !.name = Val(user).name,
                                      !.role = Val(user).role,
                                      !.today = Today(bd)], "find")
    /\ UNCHANGED <<Config, Elsewhere, clock, attendance, wrote>>

\* Attendance.findOne({ userId, date: today })
SaveFind(v, r) ==
    /\ variant = v
    /\ req[r].pc = "find"
    /\ LET l == req[r]
           id == FindOne(l.userId, l.today)
       IN  Goto(r, [l EXCEPT !.id = id, !.rec = DocAt(id)], "afterFind")
    /\ UNCHANGED <<Config, Elsewhere, clock, attendance, wrote>>

\* The code after findOne: a second clock read, then the branch.
SaveAfterFind(v, r) ==
    /\ variant = v
    /\ req[r].pc = "afterFind"
    /\ LET l == [req[r] EXCEPT !.now = clock]
           timeString == FormatTime(clock)
       IN  IF l.rec = None
           THEN Goto(r, [l EXCEPT !.rec =
                           Some(Document(l.userId, l.name, l.role, l.today,
                                         Some(timeString), None, Some(clock),
                                         None, None))], "save")
           ELSE LET record == Val(l.rec)
                IN  IF Truthy(record.punchIn) /\ ~Truthy(record.punchOut)
                    THEN Goto(r, [l EXCEPT !.rec =
                                    Some([record EXCEPT
                                            !.punchOut = Some(timeString),
                                            !.recordedAt = Some(clock)])],
                              "saveOut")
                    ELSE Finish(r, l,
                           Response(200, "Punched Out", "Already Punched Out",
                                    record.punchIn, record.punchOut, None,
                                    record.recordedAt))
    /\ UNCHANGED <<Config, Elsewhere, clock, attendance, wrote>>

\* record.save() of the new document
SaveNew(v, r) ==
    /\ variant = v
    /\ req[r].pc = "save"
    /\ LET l == req[r]
           record == Val(l.rec)
       IN  /\ attendance' = Append(attendance, record)
           /\ wrote' = [wrote EXCEPT ![r] =
                  Append(@, [kind |-> "insert", id |-> Len(attendance) + 1])]
           /\ Finish(r, [l EXCEPT !.id = Len(attendance) + 1],
                 Response(200, "Punched In", "Punched In Successfully",
                          record.punchIn, None, None, record.recordedAt))
    /\ UNCHANGED <<Config, Elsewhere, clock>>

\* record.save() of the loaded document: $set of the paths it modified,
\* whatever the stored document holds by now.
SaveOut(v, r) ==
    /\ variant = v
    /\ req[r].pc = "saveOut"
    /\ LET l == req[r]
           record == Val(l.rec)
       IN  /\ attendance' = [attendance EXCEPT
                               ![l.id].punchOut = record.punchOut,
                               ![l.id].recordedAt = record.recordedAt]
           /\ wrote' = [wrote EXCEPT ![r] =
                  Append(@, [kind |-> "update", id |-> l.id])]
           /\ Finish(r, l,
                 Response(200, "Punched Out", "Punched Out Successfully",
                          record.punchIn, record.punchOut, None,
                          record.recordedAt))
    /\ UNCHANGED <<Config, Elsewhere, clock>>

IstBegin(r) == SaveBegin("ist", r)

IstFind(r) == SaveFind("ist", r)

IstAfterFind(r) == SaveAfterFind("ist", r)

IstSaveNew(r) == SaveNew("ist", r)

IstSaveOut(r) == SaveOut("ist", r)

P5Begin(r) == SaveBegin("p5", r)

P5Find(r) == SaveFind("p5", r)

P5AfterFind(r) == SaveAfterFind("p5", r)

P5SaveNew(r) == SaveNew("p5", r)

P5SaveOut(r) == SaveOut("p5", r)

---------------------------------------------------------------------------
(* Cooldown handler with a read-then-save punch-in:                        *)
(* src/pages/api/submit-attendance.js 133-242                              *)

\* diffSec < MIN_INTERVAL
DjTooSoon(diffSec) == diffSec < MIN_INTERVAL

\* { _id: record._id, punchOut: { $exists: false } }
DjPunchOutFilter(doc, i, id) == i = id /\ doc.punchOut = None

\* Method and body checks, User.findOne, then today and now.
DjBegin(r) ==
    /\ variant = "dayjs"
    /\ Arrives(r)
    /\ \E m \in Methods, u \in BodyUserIds, bd \in BodyDates :
          LET l0 == [IdleReq EXCEPT !.userId = u, !.alone = NoneInFlight(r)]
              user == UserFindOne(u)
          IN  IF m # "POST"
              THEN Finish(r, IdleReq, ErrorResponse(405, "Method Not Allowed"))
              ELSE IF u = ""
              THEN Finish(r, l0, ErrorResponse(400, "Missing or invalid userId"))
              ELSE IF user = None
              THEN Finish(r, l0, ErrorResponse(404, "User not found"))
              ELSE Goto(r, [l0 EXCEPT !.name = Val(user).name,
                                      !.role = Val(user).role,
                                      !.now = clock,
                                      !.today = Today(bd)], "find")
    /\ UNCHANGED <<Config, Elsewhere, clock, attendance, wrote>>

\* Attendance.findOne and, when a record was found, the branch on it.
DjFind(r) ==
    /\ variant = "dayjs"
    /\ req[r].pc = "find"
    /\ LET l == req[r]
           id == FindOne(l.userId, l.today)
           l1 == [l EXCEPT !.id = id, !.rec = DocAt(id)]
       IN  IF id = 0
           THEN Goto(r, l1, "afterFind")
           ELSE LET record == attendance[id]
                    diffSec == DiffSeconds(l.now,
                                 ParseDateTime(record.date, Val(record.punchIn)))
                IN  IF Truthy(record.punchIn) /\ ~Truthy(record.punchOut)
                    THEN IF DjTooSoon(diffSec)
                         THEN Finish(r, [l1 EXCEPT !.diffSec = Some(diffSec)],
                                Response(200, "Already Punched In (recent)",
                                         "Duplicate/too-fast",
                                         record.punchIn, None, Some(diffSec),
                                         None))
                         ELSE Goto(r, [l1 EXCEPT !.diffSec = Some(diffSec)],
                                   "update")
                    ELSE IF Truthy(record.punchIn)
                    THEN Finish(r, l1,
                           Response(200, "Punched Out", "Already Punched Out",
                                    record.punchIn, record.punchOut, None, None))
                    ELSE Finish(r, l1,
                           ErrorResponse(400, "Invalid attendance state"))
    /\ UNCHANGED <<Config, Elsewhere, clock, attendance, wrote>>

\* new Attendance({...}): recordedAt takes the schema default Date.now
DjAfterFind(r) ==
    /\ variant = "dayjs"
    /\ req[r].pc = "afterFind"
    /\ LET l == req[r]
       IN  Goto(r, [l EXCEPT !.rec =
                      Some(Document(l.userId, l.name, l.role, l.today,
                                    Some(FormatTime(l.now)), None, Some(clock),
                                    None, None))], "save")
    /\ UNCHANGED <<Config, Elsewhere, clock, attendance, wrote>>

\* newRecord.save()
DjSaveNew(r) ==
    /\ variant = "dayjs"
    /\ req[r].pc = "save"
    /\ LET l == req[r]
           record == Val(l.rec)
       IN  /\ attendance' = Append(attendance, record)
           /\ wrote' = [wrote EXCEPT ![r] =
                  Append(@, [kind |-> "insert", id |-> Len(attendance) + 1])]
           /\ Finish(r, [l EXCEPT !.id = Len(attendance) + 1],
                 Response(200, "Punched In", "Punched In Successfully",
                          record.punchIn, None, None, None))
    /\ UNCHANGED <<Config, Elsewhere, clock>>

\* Attendance.findOneAndUpdate({ _id, punchOut absent }, { $set: { punchOut } })
DjUpdate(r) ==
    /\ variant = "dayjs"
    /\ req[r].pc = "update"
    /\ LET l == req[r]
           m == {i \in Ids : DjPunchOutFilter(attendance[i], i, l.id)}
       IN  IF m # {}
           THEN LET updated == [attendance[l.id] EXCEPT
                                  !.punchOut = Some(FormatTime(l.now))]
                IN  /\ attendance' = [attendance EXCEPT ![l.id] = updated]
                    /\ wrote' = [wrote EXCEPT ![r] =
                           Append(@, [kind |-> "update", id |-> l.id])]
                    /\ Finish(r, l,
                          Response(200, "Punched Out", "Punched Out Successfully",
                                   updated.punchIn, updated.punchOut, None, None))
           ELSE /\ UNCHANGED <<attendance, wrote>>
                /\ Goto(r, l, "refetch")
    /\ UNCHANGED <<Config, Elsewhere, clock>>

\* Attendance.findById(record._id) after an update that did not apply.
DjRefetch(r) ==
    /\ variant = "dayjs"
    /\ req[r].pc = "refetch"
    /\ LET l == req[r]
           latest == DocAt(l.id)
       IN  IF latest # None /\ Truthy(Val(latest).punchOut)
           THEN Finish(r, l,
                  Response(200, "Punched Out", "Punched Out (by another request)",
                           Val(latest).punchIn, Val(latest).punchOut, None, None))
           ELSE Finish(r, l,
                  ErrorResponse(500, "Could not set punchOut - try again"))
    /\ UNCHANGED <<Config, Elsewhere, clock, attendance, wrote>>

---------------------------------------------------------------------------
(* src/unnamed/part_004: moment-timezone, punchInAt / punchOutAt           *)

MIN_REPEAT_SECONDS == cooldown

\* format("hh:mm:ss A"): 12-hour clock with AM/PM
Display12(t) ==
    LET sod == FormatTime(t)
    IN  <<((sod \div 3600 + 11) % 12) + 1, sod % 3600,
          IF sod < 12 * 3600 THEN "AM" ELSE "PM">>

\* format("YYYY-MM-DDTHH:mm:ssZ"): whole seconds with the zone offset
Iso(t) == <<FormatDate(t), FormatTime(t)>>

\* moment.tz(iso, APP_TZ).valueOf()
ParseIso(iso) == ParseDateTime(iso[1], iso[2])

\* Math.floor(Math.max(0, now - in) / 1000)
ElapsedSec(now, in) == (IF now > in THEN now - in ELSE 0) \div MsPerSec

\* elapsedSec < Number(MIN_REPEAT_SECONDS)
P4TooSoon(elapsedSec) == elapsedSec < MIN_REPEAT_SECONDS

\* A field the schema does not declare is dropped by Mongoose (strict mode).
Declared(v) == IF strictSchema THEN None ELSE v

\* typeof reqName === "string" && reqName.trim() ? reqName.trim() : user?.name ?? ""
Resolved(bodyValue, userValue) == IF bodyValue # "" THEN bodyValue ELSE userValue

\* (!record.punchInAt || ...) && !record.punchOut
NeedsRepair(record) == ~Truthy(record.punchInAt) /\ ~Truthy(record.punchOut)

\* { userId, date: today, punchOut: { $in: [null, undefined] }, punchInAt }
P4PunchOutFilter(doc, u, d, pinAt) ==
    /\ doc.userId = u
    /\ doc.date = d
    /\ doc.punchOut = None
    /\ doc.punchInAt = pinAt

\* new Attendance({ ..., punchInAt: isoNow, punchIn: shortNow12 })
P4NewRecord(l) ==
    Document(l.userId, l.name, l.role, l.today, Some(Display12(clock)), None,
             Some(clock), Declared(Some(Iso(clock))), None)

\* record.punchInAt = isoNow; record.punchIn = shortNow12; name and role if resolved
P4Repaired(l, record) ==
    [record EXCEPT !.punchInAt = Declared(Some(Iso(clock))),
                   !.punchIn = Some(Display12(clock)),
                   !.name = IF l.name # "" THEN l.name ELSE @,
                   !.role = IF l.role # "" THEN l.role ELSE @]

\* Method and body checks, User.findOne (a missing user is not an error),
\* resolvedName / resolvedRole, then today's date.
P4Begin(r) ==
    /\ variant = "p4"
    /\ Arrives(r)
    /\ \E m \in Methods, u \in BodyUserIds, b \in Bodies, bd \in BodyDates :
          LET l0 == [IdleReq EXCEPT !.userId = u, !.alone = NoneInFlight(r)]
              n == b[1]
              ro == b[2]
              user == UserFindOne(u)
              userName == IF user = None THEN "" ELSE Val(user).name
              userRole == IF user = None THEN "" ELSE Val(user).role
          IN  IF m # "POST"
              THEN Finish(r, IdleReq, ErrorResponse(405, "Method Not Allowed"))
              ELSE IF u = ""
              THEN Finish(r, l0, ErrorResponse(400, "Missing userId"))
              ELSE Goto(r, [l0 EXCEPT !.name = Resolved(n, userName),
                                      !.role = Resolved(ro, userRole),
                                      !.today = Today(bd)], "find")
    /\ UNCHANGED <<Config, Elsewhere, clock, attendance, wrote>>

\* Attendance.findOne({ userId, date: today })
P4Find(r) ==
    /\ variant = "p4"
    /\ req[r].pc = "find"
    /\ LET l == req[r]
           id == FindOne(l.userId, l.today)
       IN  Goto(r, [l EXCEPT !.id = id, !.rec = DocAt(id)], "afterFind")
    /\ UNCHANGED <<Config, Elsewhere, clock, attendance, wrote>>

\* The code after the first findOne: create, repair, re-read or already out.
P4AfterFind(r) ==
    /\ variant = "p4"
    /\ req[r].pc = "afterFind"
    /\ LET l == req[r]
       IN  IF l.rec = None
           THEN Goto(r, [l EXCEPT !.now = clock, !.rec = Some(P4NewRecord(l))],
                     "save")
           ELSE LET record == Val(l.rec)
                IN  IF NeedsRepair(record)
                    THEN Goto(r, [l EXCEPT !.now = clock,
                                           !.rec = Some(P4Repaired(l, record))],
                              "repair")
                    ELSE IF Truthy(record.punchIn) /\ ~Truthy(record.punchOut)
                    THEN Goto(r, l, "reread")
                    ELSE Finish(r, l,
                           Response(200, "Punched Out", "Already Punched Out",
                                    record.punchIn, record.punchOut, None, None))
    /\ UNCHANGED <<Config, Elsewhere, clock, attendance, wrote>>

\* newRec.save(): validated against the schema, then inserted
P4SaveNew(r) ==
    /\ variant = "p4"
    /\ req[r].pc = "save"
    /\ LET l == req[r]
           record == Val(l.rec)
       IN  IF Valid(record)
           THEN /\ attendance' = Append(attendance, record)
                /\ wrote' = [wrote EXCEPT ![r] =
                       Append(@, [kind |-> "insert", id |-> Len(attendance) + 1])]
                /\ Finish(r, [l EXCEPT !.id = Len(attendance) + 1],
                      Response(200, "Punched In", "Punched In Successfully",
                               record.punchIn, None, None, None))
           ELSE /\ UNCHANGED <<attendance, wrote>>
                /\ Finish(r, l, ErrorResponse(500, "Internal Server Error"))
    /\ UNCHANGED <<Config, Elsewhere, clock>>

\* record.save() of the repaired document: $set of the paths it modified
P4Repair(r) ==
    /\ variant = "p4"
    /\ req[r].pc = "repair"
    /\ LET l == req[r]
           record == Val(l.rec)
       IN  /\ attendance' = [attendance EXCEPT
                               ![l.id].punchInAt = record.punchInAt,
                               ![l.id].punchIn = record.punchIn,
                               ![l.id].name = record.name,
                               ![l.id].role = record.role]
           /\ wrote' = [wrote EXCEPT ![r] =
                  Append(@, [kind |-> "repair", id |-> l.id])]
           /\ Finish(r, l,
                 Response(200, "Punched In",
                          "Punched In (repaired missing punchInAt)",
                          record.punchIn, None, None, None))
    /\ UNCHANGED <<Config, Elsewhere, clock>>

\* record = await Attendance.findOne({ userId, date: today })  (the re-read)
P4Reread(r) ==
    /\ variant = "p4"
    /\ req[r].pc = "reread"
    /\ LET l == req[r]
           id == FindOne(l.userId, l.today)
       IN  Goto(r, [l EXCEPT !.id = id, !.rec = DocAt(id)], "afterReread")
    /\ UNCHANGED <<Config, Elsewhere, clock, attendance, wrote>>

\* The code after the re-read: fallback create, repair, or the elapsed check
\* and the punch-out timestamp, both from a fresh clock read.  (The fallback
\* create needs the record to vanish between the two reads; no handler deletes,
\* so its own message, 'Punched In (created fallback record)', is never sent.)
P4AfterReread(r) ==
    /\ variant = "p4"
    /\ req[r].pc = "afterReread"
    /\ LET l == [req[r] EXCEPT !.now = clock]
       IN  IF l.rec = None
           THEN Goto(r, [l EXCEPT !.rec = Some(P4NewRecord(l))], "save")
           ELSE LET record == Val(l.rec)
                    elapsedSec == ElapsedSec(clock, ParseIso(Val(record.punchInAt)))
                IN  IF ~Truthy(record.punchInAt)
                    THEN Goto(r, [l EXCEPT !.rec = Some(P4Repaired(l, record))],
                              "repair")
                    ELSE IF P4TooSoon(elapsedSec)
                    THEN Finish(r, [l EXCEPT !.diffSec = Some(elapsedSec)],
                           Response(429, "Punched In", "Too soon to punch out",
                                    record.punchIn, None, None, None))
                    ELSE Goto(r, [l EXCEPT !.diffSec = Some(elapsedSec)],
                              "update")
    /\ UNCHANGED <<Config, Elsewhere, clock, attendance, wrote>>

\* Attendance.findOneAndUpdate(filter, { $set: updateFields }, { new: true })
P4Update(r) ==
    /\ variant = "p4"
    /\ req[r].pc = "update"
    /\ LET l == req[r]
           m == {i \in Ids : P4PunchOutFilter(attendance[i], l.userId, l.today,
                                              Val(l.rec).punchInAt)}
       IN  IF m # {}
           THEN LET id == Min(m)
                    updated == [attendance[id] EXCEPT
                                  !.punchOutAt = Declared(Some(Iso(l.now))),
                                  !.punchOut = Some(Display12(l.now)),
                                  !.name = IF l.name # "" THEN l.name ELSE @,
                                  !.role = IF l.role # "" THEN l.role ELSE @]
                IN  /\ attendance' = [attendance EXCEPT ![id] = updated]
                    /\ wrote' = [wrote EXCEPT ![r] =
                           Append(@, [kind |-> "update", id |-> id])]
                    /\ Finish(r, l,
                          Response(200, "Punched Out", "Punched Out Successfully",
                                   updated.punchIn, updated.punchOut, None, None))
           ELSE /\ UNCHANGED <<attendance, wrote>>
                /\ Goto(r, l, "latest")
    /\ UNCHANGED <<Config, Elsewhere, clock>>

\* "race lost": Attendance.findOne({ userId, date: today }) and its report
P4Latest(r) ==
    /\ variant = "p4"
    /\ req[r].pc = "latest"
    /\ LET l == req[r]
           latest == DocAt(FindOne(l.userId, l.today))
       IN  IF latest = None
           THEN Finish(r, l, ErrorResponse(500, "Internal Server Error"))
           ELSE Finish(r, l,
                  Response(200, "Punched Out",
                           "Already Punched Out (race resolved)",
                           Val(latest).punchIn, Val(latest).punchOut, None, None))
    /\ UNCHANGED <<Config, Elsewhere, clock, attendance, wrote>>

---------------------------------------------------------------------------
(* Specifications *)

\* No user is registered through the register handler, no Rekognition
\* collection is looked at and no browser is open.
ElsewhereIdle ==
    /\ users = <<>>
    /\ rekognition = {}
    /\ kiosk = None

InitFor(V, S) ==
    /\ variant \in V
    /\ cooldown \in Cooldowns
    /\ strictSchema \in (IF variant = "p4" THEN S ELSE {TRUE})
    /\ clock = FirstInstant
    /\ attendance = <<>>
    /\ req = [r \in Reqs |-> IdleReq]
    /\ resp = [r \in Reqs |-> None]
    /\ wrote = [r \in Reqs |-> <<>>]
    /\ ElsewhereIdle

UpNext ==
    \/ \E r \in Reqs : UpBegin(r)
    \/ \E r \in Reqs : UpUpsert(r)
    \/ \E r \in Reqs : UpUpdate(r)
    \/ \E r \in Reqs : UpRefetch(r)

IstNext ==
    \/ \E r \in Reqs : IstBegin(r)
    \/ \E r \in Reqs : IstFind(r)
    \/ \E r \in Reqs : IstAfterFind(r)
    \/ \E r \in Reqs : IstSaveNew(r)
    \/ \E r \in Reqs : IstSaveOut(r)

P5Next ==
    \/ \E r \in Reqs : P5Begin(r)
    \/ \E r \in Reqs : P5Find(r)
    \/ \E r \in Reqs : P5AfterFind(r)
    \/ \E r \in Reqs : P5SaveNew(r)
    \/ \E r \in Reqs : P5SaveOut(r)

DjNext ==
    \/ \E r \in Reqs : DjBegin(r)
    \/ \E r \in Reqs : DjFind(r)
    \/ \E r \in Reqs : DjAfterFind(r)
    \/ \E r \in Reqs : DjSaveNew(r)
    \/ \E r \in Reqs : DjUpdate(r)
    \/ \E r \in Reqs : DjRefetch(r)

P4Next ==
    \/ \E r \in Reqs : P4Begin(r)
    \/ \E r \in Reqs : P4Find(r)
    \/ \E r \in Reqs : P4AfterFind(r)
    \/ \E r \in Reqs : P4SaveNew(r)
    \/ \E r \in Reqs : P4Repair(r)
    \/ \E r \in Reqs : P4Reread(r)
    \/ \E r \in Reqs : P4AfterReread(r)
    \/ \E r \in Reqs : P4Update(r)
    \/ \E r \in Reqs : P4Latest(r)

\* The atomic-upsert handler is deployed.
Init == InitFor({"upsert"}, {TRUE})

Next == Tick \/ UpNext

Spec == Init /\ [][Next]_vars

\* One of the read-then-save handlers without cooldown is deployed.
InitSave == InitFor({"ist", "p5"}, {TRUE})

NextSave == Tick \/ IstNext \/ P5Next

SpecSave == InitSave /\ [][NextSave]_vars

\* One of the handlers that create the punch-in record with findOne, then
\* save, is deployed.
InitFindSave == InitFor({"ist", "dayjs", "p4", "p5"}, BOOLEAN)

NextFindSave == Tick \/ IstNext \/ DjNext \/ P4Next \/ P5Next

SpecFindSave == InitFindSave /\ [][NextFindSave]_vars

\* Any one of the five handler versions is deployed.
InitAll == InitFor({"upsert", "ist", "dayjs", "p4", "p5"}, BOOLEAN)

NextAll == Tick \/ UpNext \/ IstNext \/ DjNext \/ P4Next \/ P5Next

SpecAll == InitAll /\ [][NextAll]_vars

\* One of the two handlers named for the cooldown boundary is deployed.
InitCooldown == InitFor({"upsert", "p4"}, BOOLEAN)

NextCooldown == Tick \/ UpNext \/ P4Next

SpecCooldown == InitCooldown /\ [][NextCooldown]_vars

\* The atomic-upsert handler is deployed on a store that already holds a record
\* of user U1 for the first day, written by something other than this handler:
\* punchIn and punchOut are each present or absent.
SeedTime == FormatTime(FirstInstant)

SeedRecords ==
    { Document("U1", UserDoc("U1").name, UserDoc("U1").role,
               FormatDate(FirstInstant), pin, pout, Some(FirstInstant),
               None, None) :
        pin \in {None, Some(SeedTime)}, pout \in {None, Some(SeedTime)} }

InitSeeded ==
    /\ variant = "upsert"
    /\ cooldown \in Cooldowns
    /\ strictSchema = TRUE
    /\ clock = FirstInstant
    /\ attendance \in {<<d>> : d \in SeedRecords}
    /\ req = [r \in Reqs |-> IdleReq]
    /\ resp = [r \in Reqs |-> None]
    /\ wrote = [r \in Reqs |-> <<>>]
    /\ ElsewhereIdle

NextSeeded == Tick \/ UpNext

SpecSeeded == InitSeeded /\ [][NextSeeded]_vars

\* The atomic-upsert handler is deployed and its store calls may fail.
UpFailNext ==
    \/ \E r \in Reqs : UpFailBefore(r)
    \/ \E r \in Reqs : UpFailAfter(r)

NextFailing == Tick \/ UpNext \/ UpFailNext

SpecFailing == Init /\ [][NextFailing]_vars

\* src/unnamed/part_004 is deployed with a schema that declares punchInAt, on a
\* store that holds an open record of user U1 written without punchInAt (as
\* the handler itself writes it under the schema of src/models/Attendance.js,
\* and as its repair branch expects to find it).
LegacyRecord ==
    Document("U1", UserDoc("U1").name, UserDoc("U1").role,
             FormatDate(FirstInstant), Some(Display12(FirstInstant)), None,
             Some(FirstInstant), None, None)

InitLegacy ==
    /\ variant = "p4"
    /\ cooldown \in Cooldowns
    /\ strictSchema = FALSE
    /\ clock = FirstInstant
    /\ attendance = <<LegacyRecord>>
    /\ req = [r \in Reqs |-> IdleReq]
    /\ resp = [r \in Reqs |-> None]
    /\ wrote = [r \in Reqs |-> <<>>]
    /\ ElsewhereIdle

NextLegacy == Tick \/ P4Next

SpecLegacy == InitLegacy /\ [][NextLegacy]_vars

---------------------------------------------------------------------------
(* Properties *)

Done(r) == req[r].pc = "done"

Answer(r) == Val(resp[r])

\* The documents stored for (userId, date)
DocsFor(u, d) ==
    {i \in Ids : attendance[i].userId = u /\ attendance[i].date = d}

Days == {FormatDate(t) : t \in Instants}

\* The requests answered 200 for (userId, date)
Served(u, d) ==
    {r \in Reqs : /\ Done(r)
                  /\ req[r].userId = u
                  /\ req[r].today = d
                  /\ Answer(r).code = 200}

\* r performed a write of this kind on document i
Wrote(r, kind, i) ==
    \E k \in DOMAIN wrote[r] : wrote[r][k] = [kind |-> kind, id |-> i]

\* C1: atomic-upsert handler, store calls atomic and arbitrarily interleaved:
\* the Attendance store never holds two records for one (userId, date).
C1_OneRecordPerUserDay ==
    \A i, j \in Ids :
        (attendance[i].userId = attendance[j].userId
            /\ attendance[i].date = attendance[j].date) => i = j

\* Two requests for the same user and day were both served, one record is stored.
C1_Witness ==
    \E r1, r2 \in Reqs :
        /\ r1 # r2
        /\ r1 \in Served(req[r1].userId, req[r1].today)
        /\ r2 \in Served(req[r1].userId, req[r1].today)
        /\ Cardinality(DocsFor(req[r1].userId, req[r1].today)) = 1

\* C2: atomic-upsert handler: of the requests served for one registered user
\* and day, exactly one answers 'Punched In', and it is the one whose upsert
\* inserted the record; no other request writes an insert, and every one of
\* them answers with the punchIn of the one stored record.
C2_OnePunchInSharedByAll ==
    \A u \in RegisteredUsers, d \in Days :
        LET S == Served(u, d)
            ins == {r \in S : Answer(r).status = "Punched In"}
        IN  S # {} =>
              /\ Cardinality(ins) = 1
              /\ Cardinality(DocsFor(u, d)) = 1
              /\ \A r \in S :
                    LET i == Min(DocsFor(u, d))
                    IN  /\ Answer(r).punchIn = attendance[i].punchIn
                        /\ (r \in ins) = Wrote(r, "insert", i)
                        /\ (r \notin ins) =>
                              \A k \in DOMAIN wrote[r] : wrote[r][k].kind # "insert"

\* Three requests for one user and day; the two that read the clock first, while
\* no record existed, lost the insert to the third and answer with its punchIn.
C2_Witness ==
    \E r1, r2, r3 \in Reqs :
        /\ r2 # r3
        /\ {r1, r2, r3} \subseteq Served(req[r1].userId, req[r1].today)
        /\ Answer(r1).status = "Punched In"
        /\ req[r2].now < req[r1].now
        /\ req[r3].now < req[r1].now
        /\ Answer(r2).punchIn = Answer(r1).punchIn
        /\ Answer(r3).punchIn = Answer(r1).punchIn

\* The requests that passed the cooldown check on document i
PastCooldown(i) ==
    {r \in Reqs : /\ req[r].id = i
                  /\ req[r].diffSec # None
                  /\ Val(req[r].diffSec) >= cooldown}

\* C4: atomic-upsert handler: of the requests that passed the cooldown check
\* on one punch-in-only record, exactly one conditional update sets punchOut
\* (punchOut is set if and only if one did), and every such request that has
\* answered, answers 'Punched Out' with the punchOut the record holds.
C4_OnePunchOutSharedByAll ==
    \A i \in Ids :
        /\ Cardinality({r \in Reqs : Wrote(r, "update", i)}) <= 1
        /\ (attendance[i].punchOut # None) = (\E r \in Reqs : Wrote(r, "update", i))
        /\ \A r \in PastCooldown(i) :
              Done(r) => /\ Answer(r).code = 200
                         /\ Answer(r).status = "Punched Out"
                         /\ Answer(r).punchOut # None
                         /\ Answer(r).punchOut = attendance[i].punchOut

\* Two requests passed the cooldown check on the same record; one set punchOut,
\* the other lost the conditional update and reports the winner's value.
C4_Witness ==
    \E i \in Ids : \E r1, r2 \in PastCooldown(i) :
        /\ Done(r1) /\ Done(r2)
        /\ Wrote(r1, "update", i)
        /\ Answer(r2).message = "Punched Out (by another request)"
        /\ Answer(r2).punchOut = Answer(r1).punchOut

\* Every request so far arrived while no other request was in progress.
Sequential == \A r \in Reqs : req[r].pc # "idle" => req[r].alone

\* The answered calls of a registered user on one day, in order of arrival
Calls(u, d) ==
    {r \in Reqs : Done(r) /\ req[r].userId = u /\ req[r].today = d}

\* C6 (as claimed): sequential calls for one registered user on one day with
\* cooldown 60 s: the first answers 'Punched In'; a later call less than 60 s
\* after the punch-in instant answers 'Already Punched In (recent)' with the
\* elapsed seconds; the first call at least 60 s after it answers 'Punched Out'
\* with its own time; every call after that answers 'Already Punched Out' with
\* the same punchIn and punchOut.
C6_SequentialCalls ==
    (cooldown = 60 /\ Sequential) =>
        \A u \in RegisteredUsers, d \in Days : \A r \in Calls(u, d) :
            LET first == Min(Calls(u, d))
                pin == req[first].now
                late == {q \in Calls(u, d) :
                            q # first /\ req[q].now - pin >= 60 * MsPerSec}
                a == Answer(r)
            IN  /\ r = first => a.status = "Punched In"
                /\ (r # first /\ req[r].now - pin < 60 * MsPerSec) =>
                      /\ a.status = "Already Punched In (recent)"
                      /\ a.secondsSincePunchIn = Some((req[r].now - pin) \div MsPerSec)
                /\ (r \in late /\ r = Min(late)) =>
                      /\ a.message = "Punched Out Successfully"
                      /\ a.punchOut = Some(FormatTime(req[r].now))
                /\ (r \in late /\ r # Min(late)) =>
                      /\ a.message = "Already Punched Out"
                      /\ a.punchIn = Some(FormatTime(pin))
                      /\ a.punchOut = Some(FormatTime(req[Min(late)].now))

\* C7: atomic-upsert handler: once a record has punchOut, no step changes any
\* of its fields, and every request for its user and day that answers from then
\* on answers 200 with the record's punchIn and punchOut.
C7_TerminalRecord ==
    [][\A i \in Ids :
          attendance[i].punchOut # None =>
            /\ i \in DOMAIN attendance'
            /\ attendance'[i] = attendance[i]
            /\ \A r \in Reqs :
                  (/\ resp[r] = None
                   /\ resp'[r] # None
                   /\ req'[r].userId = attendance[i].userId
                   /\ req'[r].today = attendance[i].date) =>
                     /\ Val(resp'[r]).code = 200
                     /\ Val(resp'[r]).punchIn = attendance[i].punchIn
                     /\ Val(resp'[r]).punchOut = attendance[i].punchOut]_vars

\* A record was punched out, and a later request for its user and day was
\* answered 'Already Punched Out' with the record's punchIn and punchOut.
C7_Witness ==
    \E r \in Reqs, i \in Ids :
        /\ Done(r)
        /\ req[r].id = i
        /\ Answer(r).message = "Already Punched Out"
        /\ \E q \in Reqs : Wrote(q, "update", i)
        /\ Answer(r).punchIn = attendance[i].punchIn
        /\ Answer(r).punchOut = attendance[i].punchOut

\* C8 (as claimed): atomic-upsert handler: the request that set punchOut read
\* the clock at least MIN_INTERVAL seconds after the clock reading of the
\* request that punched in, both taken with millisecond precision.
C8_CooldownBetweenInstants ==
    \A i \in Ids, rin, rout \in Reqs :
        (Wrote(rin, "insert", i) /\ Wrote(rout, "update", i)) =>
            req[rout].now - req[rin].now >= MIN_INTERVAL * MsPerSec

\* C10: atomic-upsert handler, every configured cooldown of at least 1 s and a
\* monotonic clock: a record that has punchOut has it strictly later than its
\* punchIn (both are times of the record's date).
C10_PunchOutAfterPunchIn ==
    cooldown >= 1 =>
        \A i \in Ids :
            attendance[i].punchOut # None =>
                Val(attendance[i].punchOut) > Val(attendance[i].punchIn)

\* With the shortest cooldown, a record punched out one second after punch-in.
C10_Witness ==
    /\ cooldown = 1
    /\ \E i \in Ids :
          /\ attendance[i].punchOut # None
          /\ Val(attendance[i].punchOut) = Val(attendance[i].punchIn) + 1

\* C3 (as claimed): handlers that create the punch-in record with findOne
\* followed by save: when two requests for the same userId and day have both
\* been served, exactly one record exists for that (userId, date).
C3_ConcurrentFirstRequestsOneRecord ==
    \A r1, r2 \in Reqs :
        (/\ r1 # r2
         /\ r1 \in Served(req[r1].userId, req[r1].today)
         /\ r2 \in Served(req[r1].userId, req[r1].today)) =>
            Cardinality(DocsFor(req[r1].userId, req[r1].today)) = 1

\* C5 (as claimed): handlers that punch out with an unconditional document
\* save: the punchOut of a record is written by at most one request, and a
\* punchOut returned to a caller is the punchOut the record holds ever after.
C5_PunchOutWrittenOnce ==
    \A i \in Ids :
        /\ Cardinality({r \in Reqs : Wrote(r, "update", i)}) <= 1
        /\ \A r \in Reqs :
              (Done(r) /\ req[r].id = i /\ Answer(r).punchOut # None) =>
                  Answer(r).punchOut = attendance[i].punchOut

\* The answer that rejects a punch-out as too soon, without a write
Rejected(r) ==
    /\ Done(r)
    /\ wrote[r] = <<>>
    /\ Answer(r).punchOut = None
    /\ IF variant = "p4" THEN Answer(r).code = 429
       ELSE Answer(r).status = "Already Punched In (recent)"

\* C9: atomic-upsert handler and src/unnamed/part_004: a request whose computed
\* elapsed seconds since punch-in are strictly below the cooldown is rejected
\* without a write; one whose elapsed seconds equal or exceed the cooldown goes
\* on to the punch-out update, is never rejected, and once answered reports
\* 'Punched Out' with the punchOut that the record of its user and day holds.
C9_BoundaryInclusive ==
    \A r \in Reqs :
        req[r].diffSec # None =>
            IF Val(req[r].diffSec) < cooldown
            THEN Rejected(r)
            ELSE \/ req[r].pc \in {"update", "refetch", "latest"}
                 \/ /\ Done(r)
                    /\ Answer(r).code = 200
                    /\ Answer(r).status = "Punched Out"
                    /\ Answer(r).punchOut # None
                    /\ \E i \in DocsFor(req[r].userId, req[r].today) :
                          attendance[i].punchOut = Answer(r).punchOut

\* A request computed an elapsed time equal to the cooldown and set punchOut.
C9_Witness ==
    \E r \in Reqs, i \in Ids :
        /\ req[r].diffSec = Some(cooldown)
        /\ Done(r)
        /\ Wrote(r, "update", i)
        /\ Answer(r).message = "Punched Out Successfully"
        /\ attendance[i].punchOut = Answer(r).punchOut

\* C11 (as claimed): handlers of lines 15-109 and src/unnamed/part_005: punchOut
\* is never set by a request whose clock reading is less than 60 s after the
\* clock reading of the request that punched the same record in.
C11_NoPunchOutWithinCooldown ==
    \A i \in Ids, rin, rout \in Reqs :
        (/\ variant \in {"ist", "p5"}
         /\ Wrote(rin, "insert", i)
         /\ Wrote(rout, "update", i)) =>
            req[rout].now - req[rin].now >= 60 * MsPerSec

\* C12: atomic-upsert handler: a request whose userId matches no User document
\* is answered 404 'User not found' and performs no write, and the store never
\* holds an Attendance record for a userId that is not registered.
C12_UnknownUserNotFound ==
    /\ \A r \in Reqs :
          (Done(r) /\ req[r].userId # "" /\ req[r].userId \notin RegisteredUsers) =>
              /\ Answer(r).code = 404
              /\ Answer(r).message = "User not found"
              /\ wrote[r] = <<>>
    /\ \A i \in Ids : attendance[i].userId \in RegisteredUsers

\* An unknown userId was answered 404 while the store, which holds a record of
\* a registered user, holds none for it.
C12_Witness ==
    \E r \in Reqs :
        /\ Done(r)
        /\ req[r].userId = "U404"
        /\ Answer(r).code = 404
        /\ attendance # <<>>
        /\ \A i \in Ids : attendance[i].userId # "U404"

\* C13 (as claimed): src/unnamed/part_004: a request whose userId matches no User
\* document is answered 404 and performs no write, whatever name and role its
\* body carries, and the store never holds a record for an unregistered userId.
C13_UnknownUserNotFoundP4 ==
    variant = "p4" =>
        /\ \A r \in Reqs :
              (Done(r) /\ req[r].userId # ""
                       /\ req[r].userId \notin RegisteredUsers) =>
                  /\ Answer(r).code = 404
                  /\ wrote[r] = <<>>
        /\ \A i \in Ids : attendance[i].userId \in RegisteredUsers

\* C14: atomic-upsert handler: every request performs at most one
\* state-changing write on the Attendance store: the insert of the punch-in
\* record or the one punch-out update that applied, never both.
C14_AtMostOneWritePerRequest ==
    \A r \in Reqs :
        /\ Len(wrote[r]) <= 1
        /\ wrote[r] # <<>> =>
              /\ Done(r)
              /\ Answer(r).message = (IF wrote[r][1].kind = "insert"
                                      THEN "Punched In Successfully"
                                      ELSE "Punched Out Successfully")

\* Two requests were served on one record: one wrote the insert and nothing
\* else, the other wrote the punch-out update and nothing else.
C14_Witness ==
    \E r1, r2 \in Reqs, i \in Ids :
        /\ Done(r1) /\ Done(r2)
        /\ wrote[r1] = <<[kind |-> "insert", id |-> i]>>
        /\ wrote[r2] = <<[kind |-> "update", id |-> i]>>

\* The record the request r was answered from
RecordOf(r) == attendance[req[r].id]

\* C15: atomic-upsert handler: the step that answers a request 'Already Punched
\* In (recent)' or 'Already Punched Out' leaves the store as it was, the request
\* has written nothing, the answer carries the record's punchIn, and the
\* too-soon answer carries the seconds between the request's clock reading and
\* the record's punchIn: the whole seconds elapsed since the punch-in request's
\* clock reading, or one more (punchIn is stored to the second).
C15_AlreadyAnswersWriteNothing ==
    [][\A r \in Reqs :
          (/\ resp[r] = None
           /\ resp'[r] # None
           /\ \/ Val(resp'[r]).status = "Already Punched In (recent)"
              \/ Val(resp'[r]).message = "Already Punched Out") =>
             LET a == Val(resp'[r])
                 i == req'[r].id
                 now == req'[r].now
             IN  /\ attendance' = attendance
                 /\ wrote'[r] = <<>>
                 /\ a.punchIn = attendance[i].punchIn
                 /\ a.punchOut = attendance[i].punchOut
                 /\ a.status = "Already Punched In (recent)" =>
                       /\ a.secondsSincePunchIn =
                             Some(DiffSeconds(now,
                                    ParseDateTime(attendance[i].date,
                                                  Val(attendance[i].punchIn))))
                       /\ \A q \in Reqs :
                             (Wrote(q, "insert", i) /\ now >= req[q].now) =>
                                 Val(a.secondsSincePunchIn) - ((now - req[q].now) \div MsPerSec)
                                     \in {0, 1}]_vars

\* A request was answered 'Already Punched In (recent)' with the elapsed
\* seconds, and the record is still the one the punch-in request inserted.
C15_Witness ==
    \E r, q \in Reqs :
        /\ Done(r) /\ Done(q)
        /\ Wrote(q, "insert", req[r].id)
        /\ Answer(r).status = "Already Punched In (recent)"
        /\ Answer(r).secondsSincePunchIn # None
        /\ req[r].now > req[q].now
        /\ Some(RecordOf(r)) = req[q].rec

\* C16: atomic-upsert handler, store calls never failing, records never
\* deleted: every request of a registered user is answered 200, never with an
\* error; a request that lost the punch-out race answers 'Punched Out' with
\* the punchOut written by the request that won it.
C16_NoErrorForRegisteredUsers ==
    \A r \in Reqs :
        (Done(r) /\ req[r].userId \in RegisteredUsers) =>
            /\ Answer(r).code = 200
            /\ Answer(r).message = "Punched Out (by another request)" =>
                  /\ Answer(r).status = "Punched Out"
                  /\ Answer(r).punchOut # None
                  /\ wrote[r] = <<>>
                  /\ \E q \in Reqs \ {r} :
                        /\ Wrote(q, "update", req[r].id)
                        /\ Answer(q).punchOut = Answer(r).punchOut
                        /\ RecordOf(r).punchOut = Answer(r).punchOut

\* A request lost the punch-out race to a request that read the clock in
\* another second, and answers with the winner's punchOut, not its own time.
C16_Witness ==
    \E r, q \in Reqs :
        /\ Done(r)
        /\ Answer(r).message = "Punched Out (by another request)"
        /\ Wrote(q, "update", req[r].id)
        /\ Answer(r).punchOut = Some(FormatTime(req[q].now))
        /\ FormatTime(req[q].now) # FormatTime(req[r].now)

\* C17: atomic-upsert handler: while the stored record of (userId, today) has
\* no punchIn (punchOut set without punchIn, or neither set), no step modifies
\* it, and every request answered from it gets an error response and has
\* written nothing.
C17_OtherShapeRejected ==
    [][\A i \in Ids :
          attendance[i].punchIn = None =>
             /\ i \in DOMAIN attendance'
             /\ attendance'[i] = attendance[i]
             /\ \A r \in Reqs :
                   (resp[r] = None /\ resp'[r] # None /\ req'[r].id = i) =>
                      /\ Val(resp'[r]).code >= 400
                      /\ wrote'[r] = <<>>]_vars

\* A request found a record with punchOut and without punchIn, was answered
\* 400 'Invalid attendance state', and the record is as it was.
C17_Witness ==
    \E r \in Reqs :
        /\ Done(r)
        /\ req[r].id \in Ids
        /\ Answer(r).code = 400
        /\ Answer(r).message = "Invalid attendance state"
        /\ RecordOf(r).punchIn = None
        /\ RecordOf(r).punchOut = Some(SeedTime)
        /\ RecordOf(r) \in SeedRecords

\* C18 (as claimed): src/unnamed/part_004: no request repairs or overwrites a
\* stored record: the punchIn of a record stays the one answered to the request
\* that inserted it, and a request that finds the record without punchInAt
\* does not write to it.
C18_PunchInNeverOverwritten ==
    variant = "p4" =>
        \A i \in Ids, r \in Reqs :
            /\ ~Wrote(r, "repair", i)
            /\ (Wrote(r, "insert", i) /\ Done(r)) =>
                  attendance[i].punchIn = Answer(r).punchIn

\* C20 (as claimed): src/unnamed/part_004: the name and role of a stored record
\* are those resolved by the request that inserted it, whatever later requests
\* for that user and day carry in their bodies.
C20_NameRoleSnapshot ==
    variant = "p4" =>
        \A i \in Ids, r \in Reqs :
            Wrote(r, "insert", i) =>
                /\ attendance[i].name = req[r].name
                /\ attendance[i].role = req[r].role

\* C19: atomic-upsert handler: no step removes a record or changes its userId,
\* date, name, role or punchIn; a step that changes a record is the punch-out
\* transition: punchOut goes from absent to set, and nothing but punchOut and
\* recordedAt differs.
C19_PunchInFieldsImmutable ==
    [][\A i \in Ids :
          /\ i \in DOMAIN attendance'
          /\ attendance'[i].userId = attendance[i].userId
          /\ attendance'[i].date = attendance[i].date
          /\ attendance'[i].name = attendance[i].name
          /\ attendance'[i].role = attendance[i].role
          /\ attendance'[i].punchIn = attendance[i].punchIn
          /\ attendance'[i] # attendance[i] =>
                /\ attendance[i].punchOut = None
                /\ attendance'[i].punchOut # None
                /\ attendance'[i] = [attendance[i] EXCEPT
                                       !.punchOut = attendance'[i].punchOut,
                                       !.recordedAt = attendance'[i].recordedAt]]_vars

\* A record was punched out: punchOut and recordedAt are the punch-out
\* request's, every other field is as the punch-in request inserted it.
C19_Witness ==
    \E i \in Ids, rin, rout \in Reqs :
        /\ Wrote(rin, "insert", i)
        /\ Wrote(rout, "update", i)
        /\ attendance[i].recordedAt = Some(req[rout].now)
        /\ req[rout].now # req[rin].now
        /\ attendance[i] = [Val(req[rin].rec) EXCEPT
                              !.punchOut = Some(FormatTime(req[rout].now)),
                              !.recordedAt = Some(req[rout].now)]

\* C21: atomic-upsert handler: the date, the time and recordedAt that a request
\* writes come from its one clock reading: a stored record's date is the
\* calendar day of the instant in recordedAt, its last written time (punchOut,
\* or punchIn while punchOut is absent) is the time of day of that instant, and
\* its punchIn is the time of day of the inserting request's clock reading,
\* on the day of the record's date.
C21_DateAndTimeFromOneInstant ==
    \A i \in Ids :
        LET doc == attendance[i]
            at == Val(doc.recordedAt)
        IN  /\ doc.recordedAt # None
            /\ doc.date = FormatDate(at)
            /\ (IF doc.punchOut = None THEN doc.punchIn ELSE doc.punchOut)
                  = Some(FormatTime(at))
            /\ \A r \in Reqs :
                  Wrote(r, "insert", i) =>
                      /\ doc.date = FormatDate(req[r].now)
                      /\ doc.punchIn = Some(FormatTime(req[r].now))

\* Midnight fell while a request was running: its record, dated the first day
\* with a punchIn of that day, was inserted after a record of the next day.
C21_Witness ==
    \E i, j \in Ids :
        /\ i < j
        /\ attendance[i].date = FormatDate(MsPerDay)
        /\ attendance[j].date = FormatDate(FirstInstant)
        /\ attendance[j].punchIn = Some(FormatTime(Val(attendance[j].recordedAt)))
        /\ FormatDate(Val(attendance[j].recordedAt)) = FormatDate(FirstInstant)

\* C22 (as claimed): handlers of lines 15-109 and src/unnamed/part_004: the date
\* of a record is the calendar day of the clock reading that gave its punchIn,
\* and of the clock reading that gave its punchOut, wherever the clock ticks
\* (midnight included) between the steps of a request.
C22_DateMatchesTimestamps ==
    variant \in {"ist", "p4"} =>
        \A i \in Ids, r \in Reqs :
            (Wrote(r, "insert", i) \/ Wrote(r, "update", i)) =>
                attendance[i].date = FormatDate(req[r].now)

C24_TooSoonIsSuccess ==
    \A r \in Reqs :
        (Done(r) /\ req[r].diffSec # None /\ Val(req[r].diffSec) < cooldown) =>
            /\ Answer(r).code \in 200..299
            /\ Answer(r).punchIn # None

\* C25: atomic-upsert handler whose store calls may fail before or after they
\* took effect, every request being free to be repeated: the store holds at
\* most one record per (userId, date); each record was inserted by exactly one
\* request and punched out by at most one; its punchIn is the time of the
\* request that inserted it and its punchOut, once set, the time of the
\* request that wrote it, whether or not those requests were answered 500.
C25_RetryWritesNothingTwice ==
    /\ \A i, j \in Ids :
          (attendance[i].userId = attendance[j].userId
              /\ attendance[i].date = attendance[j].date) => i = j
    /\ \A i \in Ids :
          LET ins == {r \in Reqs : Wrote(r, "insert", i)}
              upd == {r \in Reqs : Wrote(r, "update", i)}
          IN  /\ Cardinality(ins) = 1
              /\ Cardinality(upd) <= 1
              /\ \A r \in ins :
                    attendance[i].punchIn = Some(FormatTime(req[r].now))
              /\ (attendance[i].punchOut # None) = (upd # {})
              /\ \A r \in upd :
                    attendance[i].punchOut = Some(FormatTime(req[r].now))

\* The request that inserted the record and the request that punched it out
\* were both answered 500 after their write took effect; a repeated request
\* in another second found the record and left both timestamps as written.
C25_Witness ==
    \E r1, r2, r3 \in Reqs, i \in Ids :
        /\ r1 < r2 /\ r2 < r3
        /\ Wrote(r1, "insert", i) /\ Answer(r1).code = 500
        /\ Wrote(r2, "update", i) /\ Answer(r2).code = 500
        /\ Done(r3) /\ req[r3].id = i
        /\ Answer(r3).message = "Already Punched Out"
        /\ FormatTime(req[r3].now) # FormatTime(req[r2].now)
        /\ Answer(r3).punchIn = Some(FormatTime(req[r1].now))
        /\ Answer(r3).punchOut = Some(FormatTime(req[r2].now))

\* C26 (as claimed): atomic-upsert handler: a store call that fails is tried
\* again by the handler, so one failed call never ends a request: no request
\* is answered by the catch block's 500 'Internal Server Error'.
C26_StoreFailureIsRetried ==
    \A r \in Reqs :
        Done(r) => Answer(r).message # "Internal Server Error"

\* C27: atomic-upsert handler: every step of a request for userId A on day D
\* changes or inserts only records keyed (A, D) and reads (holds in `record`)
\* only a record keyed (A, D); the records of every other userId or date are
\* the same after the step as before, whatever other requests are in flight.
C27_OnlyOwnKeyTouched ==
    [][\A r \in Reqs :
          (req'[r] # req[r]) =>
              LET l == req'[r]
                  Own(d) == d.userId = l.userId /\ d.date = l.today
              IN  /\ Len(attendance') >= Len(attendance)
                  /\ \A i \in Ids :
                        (attendance'[i] # attendance[i]) => Own(attendance[i])
                  /\ \A i \in (1..Len(attendance')) \ Ids : Own(attendance'[i])
                  /\ (l.rec # None) => Own(Val(l.rec))]_vars

\* Two users hold a record of the same day; a request of the first punched
\* its record out while a request of the second was in flight, and the
\* second user's record is as its inserting request wrote it.
C27_Witness ==
    \E r, q \in Reqs, i, j \in Ids :
        /\ Wrote(r, "update", i) /\ Wrote(q, "insert", j)
        /\ ~req[r].alone /\ ~req[q].alone
        /\ attendance[i].userId # attendance[j].userId
        /\ attendance[i].date = attendance[j].date
        /\ attendance[i].punchOut = Some(FormatTime(req[r].now))
        /\ attendance[j].punchIn = Some(FormatTime(req[q].now))
        /\ attendance[j].punchOut = None

\* C28: atomic-upsert handler: in every step each record that exists stays in
\* the store under the same (userId, date), keeps the punchIn it has and
\* keeps a punchOut once it is set; a record that appears has a punchIn and
\* no punchOut. So each (userId, date) only moves absent -> punched-in ->
\* punched-out.
C28_StateOnlyMovesForward ==
    [][/\ Len(attendance') >= Len(attendance)
       /\ \A i \in Ids :
             /\ attendance'[i].userId = attendance[i].userId
             /\ attendance'[i].date = attendance[i].date
             /\ attendance'[i].punchIn = attendance[i].punchIn
             /\ (attendance[i].punchOut # None) =>
                    attendance'[i].punchOut = attendance[i].punchOut
       /\ \A i \in (1..Len(attendance')) \ Ids :
             /\ attendance'[i].punchIn # None
             /\ attendance'[i].punchOut = None]_vars

\* A record went through all three states: one request inserted it, a second
\* punched it out, and a third, begun later, found it punched out and
\* answered with both times unchanged.
C28_Witness ==
    \E r1, r2, r3 \in Reqs, i \in Ids :
        /\ Wrote(r1, "insert", i) /\ Wrote(r2, "update", i)
        /\ Answer(r1).status = "Punched In"
        /\ Answer(r2).status = "Punched Out"
        /\ Done(r3) /\ req[r3].id = i /\ wrote[r3] = <<>>
        /\ req[r3].now > req[r2].now
        /\ Answer(r3).message = "Already Punched Out"
        /\ attendance[i].punchIn = Some(FormatTime(req[r1].now))
        /\ attendance[i].punchOut = Some(FormatTime(req[r2].now))

\* C29: every handler version: the day a request works on is the day of the
\* server clock at the step that reads the body, whatever the body holds; the
\* request keeps that day, every record it inserts carries it, and no step
\* changes the date of a stored record.
C29_DateFromServerClockOnly ==
    [][\A r \in Reqs :
          (req'[r] # req[r]) =>
              /\ (req[r].pc = "idle" /\ req'[r].pc # "done") =>
                     req'[r].today = FormatDate(clock)
              /\ (req[r].pc # "idle") => req'[r].today = req[r].today
              /\ \A i \in Ids : attendance'[i].date = attendance[i].date
              /\ \A i \in (1..Len(attendance')) \ Ids :
                     /\ req[r].pc # "idle"
                     /\ attendance'[i].date = req[r].today]_vars

\* A request that arrived after midnight inserted a record, and the record
\* is dated with the second day, the day of the server clock at its arrival.
C29_Witness ==
    \E r \in Reqs, i \in Ids :
        /\ Wrote(r, "insert", i)
        /\ r > 1
        /\ req[r].today = FormatDate(FirstInstant) + 1
        /\ attendance[i].date = req[r].today
        /\ attendance[i].userId = req[r].userId

\* C30 (as claimed): src/unnamed/part_004 with the schema of
\* src/models/Attendance.js, requests one after another: when a request
\* inserted the record and answered 'Punched In', the first later request of
\* that user and day made MIN_REPEAT_SECONDS or more after it answers
\* 'Punched Out', and the stored punchIn is still the one answered to the
\* first request.
C30_PunchedOutAfterCooldown ==
    (variant = "p4" /\ strictSchema /\ Sequential) =>
        \A r1, r2 \in Reqs, i \in Ids :
            LET Later(q) == /\ r1 < q
                            /\ Done(q)
                            /\ req[q].userId = req[r1].userId
                            /\ req[q].today = req[r1].today
                            /\ (req[q].now - req[r1].now) \div MsPerSec
                                  >= cooldown
            IN  (/\ Wrote(r1, "insert", i)
                 /\ Done(r1)
                 /\ Answer(r1).status = "Punched In"
                 /\ Later(r2)
                 /\ \A q \in Reqs : Later(q) => r2 <= q) =>
                    /\ Answer(r2).status = "Punched Out"
                    /\ attendance[i].punchIn = Answer(r1).punchIn

\* C38: atomic-upsert handler: a step of a request changes a stored record
\* only by setting its punchOut, and only when the record's date is the day
\* (IST) of the request's clock reading; a request whose upsert finds no
\* record of its user for its own day inserts one dated with that day, so
\* an earlier day's punch-in-only record is left as it is.
C38_PunchOutOnlyOnRecordDay ==
    [][\A r \in Reqs :
          (req'[r] # req[r]) =>
              LET l == req'[r]
              IN  /\ \A i \in Ids :
                        (attendance'[i] # attendance[i]) =>
                            /\ attendance[i].date = FormatDate(l.now)
                            /\ attendance[i].punchOut = None
                            /\ attendance'[i].punchOut = Some(FormatTime(l.now))
                  /\ (/\ req[r].pc = "upsert"
                      /\ \A i \in Ids : ~(/\ attendance[i].userId = l.userId
                                          /\ attendance[i].date = FormatDate(l.now))) =>
                         /\ Len(attendance') = Len(attendance) + 1
                         /\ attendance'[Len(attendance')].date = FormatDate(l.now)
                         /\ attendance'[Len(attendance')].userId = l.userId
                         /\ attendance'[Len(attendance')].punchOut = None]_vars

\* A user punched in on the first day and never out; the user's request of
\* the next day, long past the cooldown, inserted a record for the new day
\* and the first day's record is still without punchOut.
C38_Witness ==
    \E r1, r2 \in Reqs, i, j \in Ids :
        /\ Wrote(r1, "insert", i) /\ Wrote(r2, "insert", j)
        /\ attendance[i].userId = attendance[j].userId
        /\ attendance[i].date < attendance[j].date
        /\ attendance[j].date = FormatDate(req[r2].now)
        /\ DiffSeconds(req[r2].now, req[r1].now) >= cooldown
        /\ attendance[i].punchOut = None
        /\ Answer(r2).status = "Punched In"

---------------------------------------------------------------------------
(* The other handlers and the browser.  While one of them is deployed the   *)
(* attendance variables keep the values given here.                         *)

Attendance == <<cooldown, strictSchema, clock, attendance, wrote>>

AttendanceIdle ==
    /\ cooldown = 60
    /\ strictSchema = TRUE
    /\ clock = FirstInstant
    /\ attendance = <<>>
    /\ wrote = [r \in Reqs |-> <<>>]

RequestsIdle(idle) ==
    /\ req = [r \in Reqs |-> idle]
    /\ resp = [r \in Reqs |-> None]

\* A User document (src/unnamed/part_000); faceDescriptor is read by the face
\* handlers although the schema does not declare it.
User(userId, name, role, imageUrl, externalImageId, faceIds, faceDescriptor) ==
    [userId |-> userId, name |-> name, role |-> role, imageUrl |-> imageUrl,
     externalImageId |-> externalImageId, faceIds |-> faceIds,
     faceDescriptor |-> faceDescriptor]

UserIds == DOMAIN users

---------------------------------------------------------------------------
(* Face matching: src/unnamed/part_003 (verify-face, variant "verify") and  *)
(* src/lib/compare-face.js (match-face, variant "match").                   *)
(* Distances and similarities are in hundredths.                            *)

MATCH_THRESHOLD == 45

FaceMatcherThreshold == 40

\* A face descriptor: its length and the face it was taken from
Descriptor(len, face) == [len |-> len, face |-> face]

\* descriptor of the request body: absent, too short for verify-face, long
\* enough for verify-face only, or of the length both handlers accept
BodyDescriptors ==
    {None, Some(Descriptor(32, "F1")), Some(Descriptor(64, "F1")),
     Some(Descriptor(128, "F1")), Some(Descriptor(128, "F9"))}

\* imageData of the request body: absent, not a data URL, a data URL
BodyImages == {"none", "bad", "ok"}

\* euclideanDistance of two normalised descriptors of the same length: of the
\* same face, of different faces
EuclideanDistance(a, b) == IF a.face = b.face THEN 30 ELSE 90

\* The top match of SearchFacesByImage: mapped by ExternalImageId, mapped by
\* FaceId only, or a face no local user is mapped to; Similarity is at least
\* the FaceMatchThreshold of 85, or missing.
TopMatches ==
    {[ExternalImageId |-> e[1], FaceId |-> e[2], Similarity |-> e[3]] :
        e \in {<<Some("U1"), Some("f1"), Some(90)>>,
               <<None, Some("f1"), None>>,
               <<Some("U9"), Some("f9"), Some(90)>>}}

\* rekognitionSearch(buffer): throws, finds nothing, or finds a top match
SearchOutcomes ==
    {[threw |-> TRUE, found |-> FALSE, topMatch |-> None],
     [threw |-> FALSE, found |-> FALSE, topMatch |-> None]}
    \cup {[threw |-> FALSE, found |-> TRUE, topMatch |-> Some(t)] :
             t \in TopMatches}

FaceResponse(code, success, message, user, userId, distance) ==
    [code |-> code, success |-> success, message |-> message, user |-> user,
     userId |-> userId, distance |-> distance]

FaceError(code, success, message) ==
    FaceResponse(code, success, message, None, None, None)

FaceIdle ==
    [pc |-> "idle", image |-> "none", descriptor |-> None, threw |-> FALSE,
     topMatch |-> None]

\* success field of an error body: match-face sends success: false, verify-face
\* sends none
Failure(v) == IF v = "match" THEN Some(FALSE) ELSE None

\* The response when the Rekognition flow ends without a match
NoRekognitionMatch(v) ==
    IF v = "match" THEN FaceError(404, Some(FALSE), "No Rekognition match")
    ELSE FaceError(200, Some(FALSE), "No Rekognition match")

\* User.findOne by rekognition.externalImageId, then by rekognition.faceIds
MappedUser(top) ==
    LET byExt == {i \in UserIds : /\ top.ExternalImageId # None
                                  /\ users[i].externalImageId = top.ExternalImageId}
        byFace == {i \in UserIds : /\ top.FaceId # None
                                   /\ Val(top.FaceId) \in users[i].faceIds}
    IN  IF byExt # {} THEN Some(users[Min(byExt)])
        ELSE IF byFace # {} THEN Some(users[Min(byFace)])
        ELSE None

\* The response of the Rekognition flow for a top match
MatchResponse(v, top) ==
    LET user == MappedUser(top)
        distance == IF top.Similarity = None THEN None
                    ELSE Some(100 - Val(top.Similarity))
        u == Val(user)
    IN  IF user = None
        THEN FaceError(200, Some(FALSE),
                 IF v = "match"
                 THEN "Face found in Rekognition collection but no local user mapping"
                 ELSE "Face matched in Rekognition but no local user mapping found")
        ELSE FaceResponse(200, Some(TRUE), "",
                 Some([name |-> u.name,
                       role |-> IF u.role = "" THEN "student" ELSE u.role,
                       userId |-> u.userId]),
                 None, distance)

\* The stored descriptors a query is compared with: those of its length
Pool(query, len) ==
    {i \in UserIds : /\ users[i].faceDescriptor # None
                     /\ Val(users[i].faceDescriptor).len = len}

\* The user with the smallest distance, the first of them in store order
Best(query, pool) ==
    CHOOSE i \in pool :
        \A j \in pool :
            LET di == EuclideanDistance(query, Val(users[i].faceDescriptor))
                dj == EuclideanDistance(query, Val(users[j].faceDescriptor))
            IN  di < dj \/ (di = dj /\ i <= j)

\* The response of the descriptor path
DescriptorResponse(v, query) ==
    LET pool == Pool(query, IF v = "match" THEN 128 ELSE query.len)
        best == Best(query, pool)
        dist == EuclideanDistance(query, Val(users[best].faceDescriptor))
    IN  IF v = "match"
        THEN IF pool = {}
             THEN FaceError(404, Some(FALSE), "No stored face descriptors found")
             ELSE IF dist < FaceMatcherThreshold
             THEN FaceResponse(200, Some(TRUE), "", None,
                               Some(users[best].userId), Some(dist))
             ELSE FaceError(404, Some(FALSE), "No matching face found")
        ELSE IF pool # {} /\ dist < MATCH_THRESHOLD
             THEN FaceResponse(200, Some(TRUE), "",
                      Some([name |-> users[best].name, role |-> users[best].role,
                            userId |-> users[best].userId]),
                      None, Some(dist))
             ELSE FaceResponse(200, Some(FALSE), "", None, None,
                      IF pool = {} THEN None ELSE Some(dist))

\* Method check, body, getImageBuffer and the descriptor checks
FaceBegin(v, r) ==
    /\ variant = v
    /\ Arrives(r)
    /\ \E m \in Methods, image \in BodyImages, descriptor \in BodyDescriptors :
          LET l == [FaceIdle EXCEPT !.image = image, !.descriptor = descriptor]
          IN  IF m # "POST"
              THEN Finish(r, FaceIdle, FaceError(405, None, "Method Not Allowed"))
              ELSE IF image = "bad"
              THEN Finish(r, l, FaceError(400, Failure(v),
                                          "Invalid imageData or imageUrl"))
              ELSE IF image = "ok"
              THEN Goto(r, l, "search")
              ELSE IF v = "match"
              THEN IF descriptor = None \/ Val(descriptor).len # 128
                   THEN Finish(r, l, FaceError(400, Some(FALSE),
                            "Descriptor must be a valid 128-length array"))
                   ELSE Goto(r, l, "find")
              ELSE IF descriptor = None
              THEN Finish(r, l, FaceError(400, None,
                       "Provide imageData/imageUrl OR descriptor"))
              ELSE IF Val(descriptor).len < 64
              THEN Finish(r, l, FaceError(400, None, "Descriptor too short"))
              ELSE Goto(r, l, "find")
    /\ UNCHANGED <<variant, Attendance, Elsewhere>>

\* rekognitionSearch(buffer) in its try/catch and the code up to the next await
FaceSearch(v, r) ==
    /\ variant = v
    /\ req[r].pc = "search"
    /\ \E o \in SearchOutcomes :
          LET l == [req[r] EXCEPT !.threw = o.threw, !.topMatch = o.topMatch]
          IN  IF o.threw /\ l.descriptor = None
              THEN Finish(r, l, FaceError(500, Failure(v), "Rekognition error"))
              ELSE IF o.found
              THEN Goto(r, l, "map")
              ELSE Finish(r, l, NoRekognitionMatch(v))
    /\ UNCHANGED <<variant, Attendance, Elsewhere>>

\* The User.findOne calls that map the top match, and the response
FaceMap(v, r) ==
    /\ variant = v
    /\ req[r].pc = "map"
    /\ Finish(r, req[r], MatchResponse(v, Val(req[r].topMatch)))
    /\ UNCHANGED <<variant, Attendance, Elsewhere>>

\* User.find and the comparison of the descriptor with the stored ones
FaceFind(v, r) ==
    /\ variant = v
    /\ req[r].pc = "find"
    /\ Finish(r, req[r], DescriptorResponse(v, Val(req[r].descriptor)))
    /\ UNCHANGED <<variant, Attendance, Elsewhere>>

VerifyBegin(r) == FaceBegin("verify", r)

VerifySearch(r) == FaceSearch("verify", r)

VerifyMap(r) == FaceMap("verify", r)

VerifyFind(r) == FaceFind("verify", r)

MatchBegin(r) == FaceBegin("match", r)

MatchSearch(r) == FaceSearch("match", r)

MatchMap(r) == FaceMap("match", r)

MatchFind(r) == FaceFind("match", r)

VerifyNext ==
    \/ \E r \in Reqs : VerifyBegin(r)
    \/ \E r \in Reqs : VerifySearch(r)
    \/ \E r \in Reqs : VerifyMap(r)
    \/ \E r \in Reqs : VerifyFind(r)

MatchNext ==
    \/ \E r \in Reqs : MatchBegin(r)
    \/ \E r \in Reqs : MatchSearch(r)
    \/ \E r \in Reqs : MatchMap(r)
    \/ \E r \in Reqs : MatchFind(r)

\* The users the face handlers look at: U1 registered and indexed (with or
\* without a stored descriptor), U2 registered while indexing failed.
FaceUsers ==
    {<<User("U1", "Asha", "student", "img1", Some("U1"), {"f1"}, d),
       User("U2", "Ravi", "faculty", "img2", None, {}, None)>> :
        d \in {None, Some(Descriptor(128, "F1"))}}

InitFace ==
    /\ variant \in {"verify", "match"}
    /\ AttendanceIdle
    /\ RequestsIdle(FaceIdle)
    /\ users \in FaceUsers
    /\ rekognition = {}
    /\ kiosk = None

NextFace == VerifyNext \/ MatchNext

SpecFace == InitFace /\ [][NextFace]_vars

\* C31 (as claimed): verify-face and match-face: a request that carries an
\* image and a descriptor and whose Rekognition search threw is answered from
\* the descriptor comparison, as a request carrying that descriptor alone is.
C31_SearchErrorFallsBackToDescriptor ==
    \A r \in Reqs :
        (/\ Done(r)
         /\ req[r].image = "ok"
         /\ req[r].descriptor # None
         /\ req[r].threw) =>
            LET d == Val(req[r].descriptor)
            IN  IF variant = "match" /\ d.len # 128
                THEN Answer(r).message = "Descriptor must be a valid 128-length array"
                ELSE IF variant = "verify" /\ d.len < 64
                THEN Answer(r).message = "Descriptor too short"
                ELSE Answer(r) = DescriptorResponse(variant, d)

---------------------------------------------------------------------------
(* Register: src/unnamed/part_002 (variant "register"), and its helper      *)
(* indexFaceWithRetries called on its own (variant "index").                *)

DefaultMaxAttempts == 3

REK_COLLECTION == "students-collection"

\* maxAttempts of a call of indexFaceWithRetries
AttemptLimits == 0..DefaultMaxAttempts

\* The errors an IndexFaces request fails with
Throttled == [name |-> "ThrottlingException", mentionsCollection |-> FALSE]

CollectionNotFound ==
    [name |-> "ResourceNotFoundException", mentionsCollection |-> FALSE]

\* rekClient.send(IndexFacesCommand): the faces indexed, or an error.  The
\* collection-not-found error is returned while the collection does not exist.
IndexOutcomes ==
    IF REK_COLLECTION \in rekognition
    THEN {[ok |-> TRUE, faceIds |-> {"f1"}, error |-> None],
          [ok |-> FALSE, faceIds |-> {}, error |-> Some(Throttled)]}
    ELSE {[ok |-> FALSE, faceIds |-> {}, error |-> Some(CollectionNotFound)],
          [ok |-> FALSE, faceIds |-> {}, error |-> Some(Throttled)]}

\* err.name === "ResourceNotFoundException" || err.message.includes("Collection")
Fatal(err) == err.name = "ResourceNotFoundException" \/ err.mentionsCollection

\* Mutant: the loop also runs when attempt has reached maxAttempts
Retrying_Inclusive(attempt, maxAttempts) == attempt <= maxAttempts

\* while (attempt < maxAttempts)
Retrying(attempt, maxAttempts) == attempt < maxAttempts

IndexResult(success, fatal, faceIds, error) ==
    [success |-> success, fatal |-> fatal, faceIds |-> faceIds, error |-> error]

RegIdle ==
    [pc |-> "idle", userId |-> "", name |-> "", role |-> "", id |-> 0,
     maxAttempts |-> 0, attempt |-> 0, lastErr |-> None, log |-> <<>>,
     result |-> None, message |-> ""]

\* return of indexFaceWithRetries: to the caller of the function, or back into
\* the register handler
Return(r, l, result) ==
    IF variant = "index"
    THEN Finish(r, [l EXCEPT !.result = Some(result)], result)
    ELSE Goto(r, [l EXCEPT !.result = Some(result)], "indexed")

\* A call indexFaceWithRetries(buffer, userId, maxAttempts)
IndexCall(r) ==
    /\ variant = "index"
    /\ Arrives(r)
    /\ \E n \in AttemptLimits :
          Goto(r, [RegIdle EXCEPT !.userId = "U1", !.maxAttempts = n], "index")
    /\ UNCHANGED <<variant, Attendance, Elsewhere>>

\* One evaluation of the loop condition and the iteration or return after it
IndexStep(r) ==
    /\ variant \in {"index", "register"}
    /\ req[r].pc = "index"
    /\ LET l == req[r]
       IN  IF Retrying(l.attempt, l.maxAttempts)
           THEN \E o \in IndexOutcomes :
                   LET l1 == [l EXCEPT !.log = Append(@, o)]
                   IN  IF o.ok
                       THEN Return(r, l1, IndexResult(TRUE, FALSE, o.faceIds, None))
                       ELSE IF Fatal(Val(o.error))
                       THEN Return(r, [l1 EXCEPT !.lastErr = o.error],
                                   IndexResult(FALSE, TRUE, {}, o.error))
                       ELSE Goto(r, [l1 EXCEPT !.lastErr = o.error,
                                               !.attempt = @ + 1], "index")
           ELSE Return(r, l, IndexResult(FALSE, FALSE, {}, l.lastErr))
    /\ UNCHANGED <<variant, Attendance, Elsewhere>>

\* The Rekognition collection is created through /api/create-collection
CollectionCreated ==
    /\ REK_COLLECTION \notin rekognition
    /\ rekognition' = rekognition \cup {REK_COLLECTION}
    /\ UNCHANGED <<variant, Attendance, users, kiosk, req, resp>>

IndexNext ==
    \/ \E r \in Reqs : IndexCall(r)
    \/ \E r \in Reqs : IndexStep(r)

InitIndex ==
    /\ variant = "index"
    /\ AttendanceIdle
    /\ RequestsIdle(RegIdle)
    /\ users = <<>>
    /\ rekognition \in {{}, {REK_COLLECTION}}
    /\ kiosk = None

NextIndex == IndexNext \/ CollectionCreated

SpecIndex == InitIndex /\ [][NextIndex]_vars

\* Every promise the function awaits settles: a call that can take a step
\* eventually takes it.
SpecIndexFair == SpecIndex /\ \A r \in Reqs : WF_vars(IndexStep(r))

\* The log of a call: only its last request may have succeeded or failed
\* with collection-not-found
OnlyLastEnds(log) ==
    \A k \in 1..(Len(log) - 1) :
        ~log[k].ok /\ Val(log[k].error).name # "ResourceNotFoundException"

\* What a call whose requests went as in log has to return
Returned(l) ==
    LET n == Len(l.log)
        last == l.log[n]
    IN  IF n > 0 /\ last.ok
        THEN IndexResult(TRUE, FALSE, last.faceIds, None)
        ELSE IF n > 0 /\ Val(last.error).name = "ResourceNotFoundException"
        THEN IndexResult(FALSE, TRUE, {}, last.error)
        ELSE IndexResult(FALSE, FALSE, {}, IF n = 0 THEN None ELSE last.error)

C32_Bounded ==
    \A r \in Reqs :
        LET l == req[r]
        IN  /\ Len(l.log) <= l.maxAttempts
            /\ OnlyLastEnds(l.log)
            /\ Done(r) =>
                  /\ Answer(r) = Returned(l)
                  /\ (~Answer(r).success /\ ~Answer(r).fatal) =>
                         Len(l.log) = l.maxAttempts

\* C32: indexFaceWithRetries(buffer, userId, maxAttempts): every call returns;
\* it sends at most maxAttempts IndexFaces requests; no request follows one
\* that succeeded or failed with collection-not-found; it returns success
\* after a request that succeeded, a fatal failure after a request that
\* failed with collection-not-found, and otherwise a non-fatal failure with
\* the last error, after exactly maxAttempts failed requests.
C32_IndexFaceWithRetries ==
    /\ []C32_Bounded
    /\ \A r \in Reqs : (req[r].pc = "index") ~> Done(r)

\* One call returned success on its third request, one a fatal failure after
\* a throttled request and a collection-not-found, one a non-fatal failure
\* after maxAttempts = 3 throttled requests.
C32_Witness ==
    \E r1, r2, r3 \in Reqs :
        /\ Done(r1) /\ Done(r2) /\ Done(r3)
        /\ Answer(r1).success /\ Len(req[r1].log) = DefaultMaxAttempts
        /\ Answer(r2).fatal /\ Len(req[r2].log) = 2
        /\ ~Answer(r3).success /\ ~Answer(r3).fatal
        /\ Len(req[r3].log) = DefaultMaxAttempts
        /\ Answer(r3).error = Some(Throttled)

\* userId of a register request body
RegisterUserIds == {"U1", "U2"}

RegResponse(code, message, user, rekognitionError, error) ==
    [code |-> code, message |-> message, user |-> user,
     rekognitionError |-> rekognitionError, error |-> error]

\* catch (error): 500 'Internal Server Error' with error.message
ServerError(error) ==
    RegResponse(500, "Internal Server Error", None, FALSE, error)

\* Mutant: the rekognition fields are written whatever indexing returned
Indexed_Always(result) == TRUE

\* if (!idxResult.success) { ... return } : the update is reached on success
Indexed(result) == result.success

\* Method check, body parsing and validation
RegBegin(r) ==
    /\ variant = "register"
    /\ Arrives(r)
    /\ \E m \in Methods, u \in RegisterUserIds, valid \in BOOLEAN :
          IF m # "POST"
          THEN Finish(r, RegIdle,
                      RegResponse(405, "Method Not Allowed", None, FALSE, ""))
          ELSE IF ~valid
          THEN Finish(r, RegIdle,
                      RegResponse(400,
                          "Backend :: Missing or invalid data. Please register again.",
                          None, FALSE, ""))
          ELSE Goto(r, [RegIdle EXCEPT !.userId = u, !.name = UserDoc(u).name,
                                       !.role = UserDoc(u).role], "findOne")
    /\ UNCHANGED <<variant, Attendance, Elsewhere>>

\* const existingUser = await User.findOne({ userId })
RegFindOne(r) ==
    /\ variant = "register"
    /\ req[r].pc = "findOne"
    /\ IF \E i \in UserIds : users[i].userId = req[r].userId
       THEN Finish(r, req[r],
                   RegResponse(409, "User ID already exists.", None, FALSE, ""))
       ELSE Goto(r, req[r], "upload")
    /\ UNCHANGED <<variant, Attendance, Elsewhere>>

\* cloudinary.uploader.upload(imageData): the secure_url, or an error
RegUpload(r) ==
    /\ variant = "register"
    /\ req[r].pc = "upload"
    /\ \E ok \in BOOLEAN :
          IF ok THEN Goto(r, req[r], "create")
          ELSE Finish(r, req[r], ServerError("upload failed"))
    /\ UNCHANGED <<variant, Attendance, Elsewhere>>

\* User.create(newUserData) under the unique index on userId
RegCreate(r) ==
    /\ variant = "register"
    /\ req[r].pc = "create"
    /\ LET l == req[r]
       IN  IF \E i \in UserIds : users[i].userId = l.userId
           THEN /\ users' = users
                /\ Finish(r, l, ServerError("E11000 duplicate key error"))
           ELSE /\ users' = Append(users,
                                   User(l.userId, l.name, l.role, "img",
                                        None, {}, None))
                /\ Goto(r, [l EXCEPT !.id = Len(users) + 1], "download")
    /\ UNCHANGED <<variant, Attendance, rekognition, kiosk>>

\* axios.get(imageUrl): the buffer, or an error caught by the inner catch
RegDownload(r) ==
    /\ variant = "register"
    /\ req[r].pc = "download"
    /\ \E ok \in BOOLEAN :
          IF ok
          THEN Goto(r, [req[r] EXCEPT !.maxAttempts = DefaultMaxAttempts], "index")
          ELSE Goto(r, [req[r] EXCEPT !.message =
                   "User created but Rekognition indexing failed (image download error)"],
                    "readBack")
    /\ UNCHANGED <<variant, Attendance, Elsewhere>>

\* The code after indexFaceWithRetries returned: the failure branches, or
\* User.updateOne({ _id }, { $set: rekUpdate })
RegAfterIndex(r) ==
    /\ variant = "register"
    /\ req[r].pc = "indexed"
    /\ LET l == req[r]
           result == Val(l.result)
       IN  IF Indexed(result)
           THEN /\ users' = [users EXCEPT
                               ![l.id].externalImageId = Some(l.userId),
                               ![l.id].faceIds = result.faceIds]
                /\ Goto(r, [l EXCEPT !.message = "Success"], "readBack")
           ELSE /\ users' = users
                /\ Goto(r, [l EXCEPT !.message =
                       IF result.fatal
                       THEN "User created but Rekognition indexing failed"
                       ELSE "User created but Rekognition indexing failed after retries"],
                        "readBack")
    /\ UNCHANGED <<variant, Attendance, rekognition, kiosk>>

\* User.findById(newUser._id).lean() and the 200 response
RegReadBack(r) ==
    /\ variant = "register"
    /\ req[r].pc = "readBack"
    /\ LET l == req[r]
       IN  Finish(r, l, RegResponse(200, l.message, Some(users[l.id]),
                                    l.message # "Success", ""))
    /\ UNCHANGED <<variant, Attendance, Elsewhere>>

RegNext ==
    \/ \E r \in Reqs : RegBegin(r)
    \/ \E r \in Reqs : RegFindOne(r)
    \/ \E r \in Reqs : RegUpload(r)
    \/ \E r \in Reqs : RegCreate(r)
    \/ \E r \in Reqs : RegDownload(r)
    \/ \E r \in Reqs : IndexStep(r)
    \/ \E r \in Reqs : RegAfterIndex(r)
    \/ \E r \in Reqs : RegReadBack(r)

InitRegister ==
    /\ variant = "register"
    /\ AttendanceIdle
    /\ RequestsIdle(RegIdle)
    /\ users = <<>>
    /\ rekognition \in {{}, {REK_COLLECTION}}
    /\ kiosk = None

NextRegister == RegNext \/ CollectionCreated

SpecRegister == InitRegister /\ [][NextRegister]_vars

\* C33 (as claimed): register handler with the unique index on userId: at
\* most one User document per userId exists, and a request that got past the
\* validation, did not fail in the image upload and created no user is
\* answered 409 'User ID already exists.'.
C33_DuplicateAnswered409 ==
    /\ \A i, j \in UserIds : users[i].userId = users[j].userId => i = j
    /\ \A r \in Reqs :
          (/\ Done(r)
           /\ req[r].userId # ""
           /\ req[r].id = 0
           /\ Answer(r).error # "upload failed") =>
              /\ Answer(r).code = 409
              /\ Answer(r).message = "User ID already exists."

\* The request created its user and then failed to download the image
DownloadFailed(l) == l.pc \in {"readBack", "done"} /\ l.result = None

\* The request created its user and indexFaceWithRetries returned a failure
IndexingFailed(l) == l.result # None /\ ~Val(l.result).success

C34_Answers ==
    \A r \in Reqs :
        LET l == req[r]
        IN  (l.id # 0) =>
              /\ l.id \in UserIds
              /\ users[l.id].userId = l.userId
              /\ (users[l.id].faceIds # {} \/ users[l.id].externalImageId # None) =>
                    (l.result # None /\ Val(l.result).success)
              /\ Done(r) =>
                    /\ Answer(r).code = 200
                    /\ Answer(r).user = Some(users[l.id])
                    /\ Answer(r).rekognitionError =
                          (DownloadFailed(l) \/ IndexingFailed(l))

\* C34: register handler: no step removes a User document or changes its
\* userId, name, role or imageUrl; a request that created its user answers
\* 200 with the stored user, with rekognitionError exactly when the image
\* download or the indexing (fatal or after retries) failed; and a user's
\* rekognition fields are only set when the indexing of its request succeeded.
C34_UserKeptWhenIndexingFails ==
    /\ []C34_Answers
    /\ [][/\ Len(users') >= Len(users)
          /\ \A i \in UserIds :
                /\ users'[i].userId = users[i].userId
                /\ users'[i].name = users[i].name
                /\ users'[i].role = users[i].role
                /\ users'[i].imageUrl = users[i].imageUrl]_vars

\* One request created its user and failed to download the image, another
\* created its user and gave up indexing after three throttled requests;
\* both answered 200 with rekognitionError and both users are stored without
\* rekognition fields.
C34_Witness ==
    \E r1, r2 \in Reqs :
        /\ Done(r1) /\ Done(r2)
        /\ req[r1].id # 0 /\ req[r2].id # 0
        /\ DownloadFailed(req[r1])
        /\ IndexingFailed(req[r2]) /\ ~Val(req[r2].result).fatal
        /\ Len(req[r2].log) = DefaultMaxAttempts
        /\ Answer(r1).rekognitionError /\ Answer(r2).rekognitionError
        /\ Answer(r1).code = 200 /\ Answer(r2).code = 200
        /\ users[req[r1].id].faceIds = {} /\ users[req[r2].id].faceIds = {}
        /\ users[req[r2].id].externalImageId = None

---------------------------------------------------------------------------
(* create-collection: src/pages/api/create-collection.js 13-85              *)
(* (variant "collection")                                                   *)

\* collectionId of the request body: absent (the default collection) or given
BodyCollectionIds == {None, Some("staff-collection")}

ColResponse(code, ok, exists, created, collection, message) ==
    [code |-> code, ok |-> ok, exists |-> exists, created |-> created,
     collection |-> collection, message |-> message]

ColIdle == [pc |-> "idle", col |-> "", described |-> "", sentCreate |-> FALSE]

\* rekClient.send(DescribeCollectionCommand): the description, or
\* ResourceNotFoundException
Describe(col) == IF col \in rekognition THEN "found" ELSE "notFound"

\* Method checks, the admin token, connectDB and the collection id
ColBegin(r) ==
    /\ variant = "collection"
    /\ Arrives(r)
    /\ \E m \in Methods \cup {"PUT"}, c \in BodyCollectionIds, token \in BOOLEAN :
          LET col == IF c = None THEN REK_COLLECTION ELSE Val(c)
          IN  IF m = "GET"
              THEN Finish(r, ColIdle,
                          ColResponse(200, TRUE, FALSE, FALSE, REK_COLLECTION,
                                      "Send POST to create."))
              ELSE IF m # "POST"
              THEN Finish(r, ColIdle,
                          ColResponse(405, FALSE, FALSE, FALSE, "",
                                      "Method Not Allowed - use POST"))
              ELSE IF ~token
              THEN Finish(r, ColIdle,
                          ColResponse(403, FALSE, FALSE, FALSE, "",
                                      "Forbidden - invalid admin token"))
              ELSE Goto(r, [ColIdle EXCEPT !.col = col], "describe")
    /\ UNCHANGED <<variant, Attendance, Elsewhere>>

\* DescribeCollection in its try/catch: found, not found, or another error
ColDescribe(r) ==
    /\ variant = "collection"
    /\ req[r].pc = "describe"
    /\ LET l == req[r]
       IN  \E failed \in BOOLEAN :
              IF failed
              THEN Finish(r, [l EXCEPT !.described = "error"],
                          ColResponse(500, FALSE, FALSE, FALSE, "",
                                      "Could not create collection"))
              ELSE IF Describe(l.col) = "found"
              THEN Finish(r, [l EXCEPT !.described = "found"],
                          ColResponse(200, TRUE, TRUE, FALSE, l.col,
                                      "already exists"))
              ELSE Goto(r, [l EXCEPT !.described = "notFound"], "create")
    /\ UNCHANGED <<variant, Attendance, Elsewhere>>

\* rekClient.send(CreateCollectionCommand): created, or
\* ResourceAlreadyExistsException thrown into the catch block
ColCreate(r) ==
    /\ variant = "collection"
    /\ req[r].pc = "create"
    /\ LET l == [req[r] EXCEPT !.sentCreate = TRUE]
       IN  IF l.col \in rekognition
           THEN /\ rekognition' = rekognition
                /\ Finish(r, l, ColResponse(500, FALSE, FALSE, FALSE, "",
                                            "Could not create collection"))
           ELSE /\ rekognition' = rekognition \cup {l.col}
                /\ Finish(r, l, ColResponse(200, TRUE, FALSE, TRUE, l.col,
                                            "created"))
    /\ UNCHANGED <<variant, Attendance, users, kiosk>>

ColNext ==
    \/ \E r \in Reqs : ColBegin(r)
    \/ \E r \in Reqs : ColDescribe(r)
    \/ \E r \in Reqs : ColCreate(r)

InitCollection ==
    /\ variant = "collection"
    /\ AttendanceIdle
    /\ RequestsIdle(ColIdle)
    /\ users = <<>>
    /\ rekognition \in {{}, {REK_COLLECTION}}
    /\ kiosk = None

NextCollection == ColNext

SpecCollection == InitCollection /\ [][NextCollection]_vars

\* C35 (as claimed): create-collection: a POST that got past the token check
\* and whose DescribeCollection did not fail for another reason answers 200,
\* with exists: true when the collection existed and created: true when the
\* request created it, however the POSTs for one collection id interleave;
\* CreateCollection is only sent after DescribeCollection reported not found.
C35_CreateNeverFailsOnExisting ==
    \A r \in Reqs :
        LET l == req[r]
        IN  /\ l.sentCreate => l.described = "notFound"
            /\ (Done(r) /\ l.described \in {"found", "notFound"}) =>
                  /\ Answer(r).code = 200
                  /\ Answer(r).exists = (l.described = "found")
                  /\ Answer(r).created = (l.described = "notFound")

---------------------------------------------------------------------------
(* The browser: Home page (src/unnamed/part_001) and success page           *)
(* (src/pages/success.js), variant "kiosk".  req[r] is the r-th invocation  *)
(* of handleAttendance, resp[r] the body /api/verify-face answered to it.   *)
(* Synchronous code between two awaits is one step.  The registration page  *)
(* is where this model stops.                                               *)

\* A Home component freshly mounted
HomePage ==
    [page |-> "home", videoReady |-> FALSE, runningDetection |-> FALSE,
     loading |-> FALSE, showPopup |-> FALSE, query |-> None,
     effect |-> FALSE, pending |-> <<>>, submitted |-> <<>>]

RunIdle == [pc |-> "idle", skipped |-> FALSE, imageData |-> "", res |-> FALSE]

\* Users of the kiosk: both registered and indexed; one userId needs escaping
KioskUsers ==
    <<User("U1", "Asha", "student", "img1", Some("U1"), {"f1"}, None),
      User("R&D", "Ravi", "faculty", "img2", Some("R&D"), {"f2"}, None)>>

\* Top matches of the search: the two users, a match without Similarity, a
\* face mapped to no user, and a match of low similarity (SIMILARITY_THRESHOLD
\* is read from the environment)
KioskTopMatches ==
    {[ExternalImageId |-> e[1], FaceId |-> e[2], Similarity |-> e[3]] :
        e \in {<<Some("U1"), Some("f1"), Some(90)>>,
               <<Some("R&D"), Some("f2"), Some(90)>>,
               <<None, Some("f1"), None>>,
               <<Some("U9"), Some("f9"), Some(90)>>,
               <<Some("U1"), Some("f1"), Some(50)>>}}

\* The bodies /api/verify-face answers to a request carrying imageData only
VerifyResults ==
    {MatchResponse("verify", t) : t \in KioskTopMatches}
    \cup {NoRekognitionMatch("verify"),
          FaceError(500, None, "Rekognition error"),
          FaceError(400, None, "Invalid imageData or imageUrl")}

\* encodeURIComponent
EncodeURIComponent(s) == IF s = "R&D" THEN "R%26D" ELSE s

\* URLSearchParams.get: the value with its escapes decoded, "" for null
SearchParam(s) == IF s = "R%26D" THEN "R&D" ELSE s

\* Mutant: a run starts whatever the flag says
AlreadyRunning_Never(k) == FALSE

\* if (runningDetection.current)
AlreadyRunning(k) == k.runningDetection

\* Mutant: every distance passes
DistanceOk_Always(distance) == TRUE

\* serverDistance === null ? true : serverDistance < 0.45
DistanceOk(distance) == distance = None \/ Val(distance) < 45

\* finally { setLoading(false); runningDetection.current = false }
Finally(k) == [k EXCEPT !.loading = FALSE, !.runningDetection = FALSE]

\* videoRef.current.onloadedmetadata
VideoLoaded ==
    /\ variant = "kiosk"
    /\ kiosk.page = "home"
    /\ ~kiosk.videoReady
    /\ kiosk' = [kiosk EXCEPT !.videoReady = TRUE]
    /\ UNCHANGED <<variant, Attendance, users, rekognition, req, resp>>

\* handleClose
ClosePopup ==
    /\ variant = "kiosk"
    /\ kiosk.page = "home"
    /\ kiosk.showPopup
    /\ kiosk' = [kiosk EXCEPT !.showPopup = FALSE]
    /\ UNCHANGED <<variant, Attendance, users, rekognition, req, resp>>

\* The link 'New Student' of the popup
NewStudent ==
    /\ variant = "kiosk"
    /\ kiosk.page = "home"
    /\ kiosk.showPopup
    /\ kiosk' = [kiosk EXCEPT !.page = "newStudent"]
    /\ UNCHANGED <<variant, Attendance, users, rekognition, req, resp>>

\* handleAttendance is invoked by a click or by the timer: the code up to the
\* first await
Invoke(r) ==
    /\ variant = "kiosk"
    /\ kiosk.page = "home"
    /\ Arrives(r)
    /\ IF AlreadyRunning(kiosk)
       THEN /\ kiosk' = kiosk
            /\ Goto(r, [RunIdle EXCEPT !.skipped = TRUE], "done")
       ELSE IF ~kiosk.videoReady
       THEN /\ kiosk' = Finally([kiosk EXCEPT !.runningDetection = TRUE,
                                              !.loading = TRUE])
            /\ Goto(r, RunIdle, "done")
       ELSE /\ kiosk' = [kiosk EXCEPT !.runningDetection = TRUE,
                                      !.loading = TRUE]
            /\ Goto(r, [RunIdle EXCEPT !.imageData = "data:image/jpeg"], "fetch")
    /\ UNCHANGED <<variant, Attendance, users, rekognition>>

\* fetch("/api/verify-face") settles: a response, or a network error caught
FetchSettles(r) ==
    /\ variant = "kiosk"
    /\ req[r].pc = "fetch"
    /\ \E ok \in BOOLEAN :
          IF ok
          THEN /\ kiosk' = kiosk
               /\ Goto(r, [req[r] EXCEPT !.res = TRUE], "json")
          ELSE /\ kiosk' = Finally(kiosk)
               /\ Goto(r, req[r], "done")
    /\ UNCHANGED <<variant, Attendance, users, rekognition>>

\* res.json() throws on a body that is not JSON, and the error is caught
JsonThrows(r) ==
    /\ variant = "kiosk"
    /\ req[r].pc = "json"
    /\ kiosk' = Finally(kiosk)
    /\ Goto(r, req[r], "done")
    /\ UNCHANGED <<variant, Attendance, users, rekognition>>

\* res.json() settles and the rest of handleAttendance runs
JsonSettles(r) ==
    /\ variant = "kiosk"
    /\ req[r].pc = "json"
    /\ \E result \in VerifyResults :
          LET u == Val(result.user)
              query == [name |-> EncodeURIComponent(u.name),
                        role |-> EncodeURIComponent(u.role),
                        userId |-> EncodeURIComponent(u.userId),
                        imageData |-> EncodeURIComponent(req[r].imageData)]
          IN  /\ IF /\ result.success = Some(TRUE)
                    /\ result.user # None
                    /\ DistanceOk(result.distance)
                 THEN kiosk' = Finally([kiosk EXCEPT !.page = "success",
                                                     !.query = Some(query),
                                                     !.effect = FALSE])
                 ELSE kiosk' = Finally([kiosk EXCEPT !.showPopup = TRUE])
              /\ Finish(r, req[r], result)
    /\ UNCHANGED <<variant, Attendance, users, rekognition>>

\* The effect of the success page, once per mount: read the query, then
\* start runFlow, which waits for its timer
SuccessEffect ==
    /\ variant = "kiosk"
    /\ kiosk.page = "success"
    /\ ~kiosk.effect
    /\ LET q == Val(kiosk.query)
           uid == SearchParam(q.userId)
           uname == SearchParam(q.name)
           urole == SearchParam(q.role)
           img == SearchParam(q.imageData)
       IN  IF uid = "" \/ uname = "" \/ urole = "" \/ img = ""
           THEN kiosk' = [kiosk EXCEPT !.effect = TRUE, !.page = "newStudent"]
           ELSE kiosk' = [kiosk EXCEPT !.effect = TRUE,
                                       !.pending = Append(@, uid)]
    /\ UNCHANGED <<variant, Attendance, users, rekognition, req, resp>>

\* The timer of runFlow fires, whatever page is shown by then:
\* runPunchOnly({ userId }) issues fetch("/api/submit-attendance")
RunPunchOnly ==
    /\ variant = "kiosk"
    /\ kiosk.pending # <<>>
    /\ kiosk' = [kiosk EXCEPT !.submitted = Append(@, Head(kiosk.pending)),
                              !.pending = Tail(@)]
    /\ UNCHANGED <<variant, Attendance, users, rekognition, req, resp>>

\* The link 'Back to Home' of the success page: Home is mounted anew
BackToHome ==
    /\ variant = "kiosk"
    /\ kiosk.page = "success"
    /\ kiosk.effect
    /\ kiosk' = [HomePage EXCEPT !.pending = kiosk.pending,
                                 !.submitted = kiosk.submitted]
    /\ UNCHANGED <<variant, Attendance, users, rekognition, req, resp>>

KioskNext ==
    \/ VideoLoaded
    \/ ClosePopup
    \/ NewStudent
    \/ \E r \in Reqs : Invoke(r)
    \/ \E r \in Reqs : FetchSettles(r)
    \/ \E r \in Reqs : JsonThrows(r)
    \/ \E r \in Reqs : JsonSettles(r)
    \/ SuccessEffect
    \/ RunPunchOnly
    \/ BackToHome

InitKiosk ==
    /\ variant = "kiosk"
    /\ AttendanceIdle
    /\ RequestsIdle(RunIdle)
    /\ users = KioskUsers
    /\ rekognition = {REK_COLLECTION}
    /\ kiosk = HomePage

NextKiosk == KioskNext

SpecKiosk == InitKiosk /\ [][NextKiosk]_vars

\* The invocations whose /api/verify-face request is in flight
InFlight == {r \in Reqs : req[r].pc \in {"fetch", "json"}}

\* C36: Home page: at most one /api/verify-face request of handleAttendance
\* is in flight; the flag is set exactly while one is, so it is clear again
\* whenever every invocation has ended (match, no match, video not ready,
\* exception); and the step of an invocation that finds a run in progress
\* leaves the flag, and everything else of the page, as it is.
C36_OneRunAtATime ==
    /\ [](/\ Cardinality(InFlight) <= 1
          /\ kiosk.runningDetection = (InFlight # {}))
    /\ [][\A r \in Reqs :
             (req[r].pc = "idle" /\ req'[r].pc = "done" /\ req'[r].skipped) =>
                 (kiosk.runningDetection /\ kiosk' = kiosk)]_vars

\* An invocation found a run in progress and returned; the run then ended
\* without a match, and a later invocation has its request in flight.
C36_Witness ==
    \E r1, r2, r3 \in Reqs :
        /\ r1 < r2 /\ r2 < r3
        /\ Done(r1) /\ ~req[r1].skipped /\ resp[r1] # None
        /\ Answer(r1).success = Some(FALSE)
        /\ Done(r2) /\ req[r2].skipped
        /\ req[r3].pc = "fetch"
        /\ kiosk.runningDetection

\* The invocations that /api/verify-face answered with success, a user with
\* this userId and a distance that is null or below 0.45
VerifiedAs(u) ==
    {r \in Reqs : /\ resp[r] # None
                  /\ Answer(r).success = Some(TRUE)
                  /\ Answer(r).user # None
                  /\ Val(Answer(r).user).userId = u
                  /\ (Answer(r).distance = None \/ Val(Answer(r).distance) < 45)}

\* C37: Home page then success page: every /api/submit-attendance request the
\* browser issued or is about to issue is for a userId that /api/verify-face
\* answered with success and a distance that is null or below 0.45, and there
\* are no more such requests than such answers; an invocation that ended in
\* any other way led to none.
C37_SubmitOnlyAfterVerification ==
    /\ \A k \in DOMAIN kiosk.submitted : VerifiedAs(kiosk.submitted[k]) # {}
    /\ \A k \in DOMAIN kiosk.pending : VerifiedAs(kiosk.pending[k]) # {}
    /\ Len(kiosk.submitted) + Len(kiosk.pending) <=
          Cardinality(UNION {VerifiedAs(users[i].userId) : i \in UserIds})

\* Verification failed once (low similarity) and the popup was closed; the
\* next invocation was answered with the user whose id needs escaping, and
\* the success page issued the submit-attendance request for that very id.
C37_Witness ==
    \E r1, r2 \in Reqs :
        /\ r1 < r2
        /\ resp[r1] # None /\ Answer(r1).success = Some(TRUE)
        /\ Answer(r1).distance = Some(50)
        /\ r2 \in VerifiedAs("R&D")
        /\ kiosk.submitted = <<"R&D">>
        /\ kiosk.page = "success"

===========================================================================
